---------------------------- MODULE Spec2Model ----------------------------
(***************************************************************************)
(* OptoFlood forwarder core: the Temporary FIB (NFD/daemon/table/tfib.cpp) *)
(* and the handlers of mobility Data and of Interests that miss the        *)
(* content store in the forwarder extension                                *)
(* (NFD/daemon/fw/optoflood-forwarder-extension.cpp).                      *)
(*                                                                         *)
(* Time is the reading of time::steady_clock in milliseconds.  The `now`   *)
(* of one handler run is one instant.  std::map is a function whose        *)
(* DOMAIN is the set of keys present; std::optional is a set with at most  *)
(* one element.                                                            *)
(***************************************************************************)
EXTENDS Integers, Sequences, FiniteSets, TLC

\* ---------------------------------------------------------------- bounds
NumFaces      == 3      \* face ids 1..NumFaces
NumFloodIds   == 2      \* flood ids 1..NumFloodIds
MaxSeq        == 2      \* NewFaceSeq values 1..MaxSeq
NumComponents == 2      \* name components 1..NumComponents
MaxNameLen    == 2      \* names have at most MaxNameLen components
MaxElapsed    == 6000   \* the clock stops this long after construction
MaxCalls      == 3      \* calls of the Tfib interface in one behaviour
MaxPackets    == 2      \* packets and face events handled in one behaviour
MaxChain      == 8      \* routers in a row that a flooded Interest may cross
MaxSends      == 5      \* Interests one consumer expresses in one behaviour
MaxEvents     == 6      \* mobility events and Interests at one producer
MaxArrivals   == 3      \* Data of one prefix arriving in one behaviour
MaxBurst      == 102    \* Data of one burst of floods in one behaviour

\* ------------------------------------------------------ program constants
DEFAULT_FLOOD_HOP_LIMIT == 3
MobilityFlag == 201
FloodId      == 202
NewFaceSeq   == 203
TraceHint    == 204
OPTOFLOOD_DEFAULT_HOP_LIMIT     == 3
OPTOFLOOD_RATE_LIMIT_PER_SECOND == 100
OPTOFLOOD_RATE_WINDOW           == 1000
DEFAULT_LIFETIME                == 1000
CLEANUP_INTERVAL                == 100
FLOOD_ID_TTL                    == 5 * 1000
\* steady_clock reading when the forwarder is constructed: later than one
\* rate window after the clock's epoch, where m_floodRateWindowStart starts
ClockAtStart                    == OPTOFLOOD_RATE_WINDOW + DEFAULT_LIFETIME

Faces     == 1..NumFaces
FloodIds  == 1..NumFloodIds
Seqs      == 1..MaxSeq
\* hop-limit tags a Data arrives with: spent, last hop, the default budget
HopTags   == {0, 1, OPTOFLOOD_DEFAULT_HOP_LIMIT}
\* how far the clock advances between two events, and until when: the
\* forwarder is followed past FLOOD_ID_TTL, the Tfib alone past an expiry
TimeSteps     == {DEFAULT_LIFETIME \div 2, FLOOD_ID_TTL}
MaxTime       == ClockAtStart + MaxElapsed
TfibTimeSteps == {DEFAULT_LIFETIME \div 2}
TfibMaxTime   == ClockAtStart + DEFAULT_LIFETIME + DEFAULT_LIFETIME \div 2

RECURSIVE NamesOfLen(_)
NamesOfLen(n) ==
  IF n = 0 THEN {<<>>}
  ELSE {Append(s, c) : s \in NamesOfLen(n - 1), c \in 1..NumComponents}

Names    == UNION {NamesOfLen(n) : n \in 0..MaxNameLen}
Prefixes == UNION {NamesOfLen(n) : n \in 0..(MaxNameLen - 1)}

\* Name::getPrefix(-1): the name without its last component
getPrefix(name) ==
  IF Len(name) = 0 THEN name ELSE SubSeq(name, 1, Len(name) - 1)

\* canonical order of std::map<Name, ...>
RECURSIVE NameLess(_, _)
NameLess(a, b) ==
  IF Len(a) = 0 THEN Len(b) > 0
  ELSE IF Len(b) = 0 THEN FALSE
  ELSE IF Head(a) # Head(b) THEN Head(a) < Head(b)
  ELSE NameLess(Tail(a), Tail(b))

RECURSIVE SortNames(_)
SortNames(S) ==
  IF S = {} THEN <<>>
  ELSE LET m == CHOOSE x \in S : \A y \in S : x = y \/ NameLess(x, y)
       IN  <<m>> \o SortNames(S \ {m})

\* ------------------------------------------------------------ tfib::Entry
NewEntry(face, newFaceSeq, floodId, t) ==
  [face |-> face, newFaceSeq |-> newFaceSeq, floodId |-> floodId,
   expiry |-> t + DEFAULT_LIFETIME]

\* Entry::isExpired with the comparison turned around
isExpired_inverted(entry, t) == t <= entry.expiry

isExpired(entry, t) == t >= entry.expiry

\* Entry::refresh leaving m_expiry as it was
refresh_keepsExpiry(entry, t) == entry

refresh(entry, t) == [entry EXCEPT !.expiry = t + DEFAULT_LIFETIME]

\* ------------------------------------------------------------------ Tfib
findExactMatch(entries, prefix, t) ==
  IF prefix \in DOMAIN entries /\ ~isExpired(entries[prefix], t)
  THEN {prefix} ELSE {}

\* the while loop, giving up at the first entry it finds, expired or not
RECURSIVE lpmLoop_stopsAtExpired(_, _, _)
lpmLoop_stopsAtExpired(entries, prefix, t) ==
  IF Len(prefix) = 0 THEN {}
  ELSE LET p == getPrefix(prefix)
       IN  IF p \in DOMAIN entries
           THEN IF isExpired(entries[p], t) THEN {} ELSE {p}
           ELSE lpmLoop_stopsAtExpired(entries, p, t)

\* the while loop of findLongestPrefixMatch, entered with the full name
RECURSIVE lpmLoop(_, _, _)
lpmLoop(entries, prefix, t) ==
  IF Len(prefix) = 0 THEN {}
  ELSE LET p == getPrefix(prefix)
       IN  IF p \in DOMAIN entries /\ ~isExpired(entries[p], t)
           THEN {p}
           ELSE lpmLoop(entries, p, t)

findLongestPrefixMatch(entries, name, t) ==
  LET exact == findExactMatch(entries, name, t)
  IN  IF exact # {} THEN exact ELSE lpmLoop(entries, name, t)

\* the update test replacing on any other sequence number
insertReplaces_anyOtherSeq(entry, newFaceSeq, floodId) ==
  newFaceSeq # entry.newFaceSeq \/ floodId # entry.floodId

\* the update test replacing on an equal sequence number too
insertReplaces_sameSeqToo(entry, newFaceSeq, floodId) ==
  newFaceSeq >= entry.newFaceSeq \/ floodId # entry.floodId

\* the update test without the flood id comparison
insertReplaces_seqOnly(entry, newFaceSeq, floodId) ==
  newFaceSeq > entry.newFaceSeq

\* the update test of Tfib::insert on an existing entry
insertReplaces(entry, newFaceSeq, floodId) ==
  newFaceSeq > entry.newFaceSeq \/ floodId # entry.floodId

AfterInsert(prefix, face, newFaceSeq) ==
  [sig |-> "afterInsert", prefix |-> prefix, face |-> face, seq |-> newFaceSeq]

\* beforeRemove(prefix), with what a handler of the signal finds in the
\* table when it runs: whether the entry of the prefix is still there
BeforeRemove(prefix, entries) ==
  [sig |-> "beforeRemove", prefix |-> prefix, inTable |-> prefix \in DOMAIN entries]

Put(map, key, value) ==
  [k \in DOMAIN map \cup {key} |-> IF k = key THEN value ELSE map[k]]

Remove(map, keys) == [k \in DOMAIN map \ keys |-> map[k]]

\* Tfib::insert: the table afterwards and the signals emitted
TfibInsert(entries, prefix, face, newFaceSeq, floodId, t) ==
  IF prefix \in DOMAIN entries
  THEN IF insertReplaces(entries[prefix], newFaceSeq, floodId)
       THEN [entries |-> Put(entries, prefix, NewEntry(face, newFaceSeq, floodId, t)),
             signals |-> <<AfterInsert(prefix, face, newFaceSeq)>>]
       ELSE [entries |-> Put(entries, prefix, refresh(entries[prefix], t)),
             signals |-> <<>>]
  ELSE [entries |-> Put(entries, prefix, NewEntry(face, newFaceSeq, floodId, t)),
        signals |-> <<AfterInsert(prefix, face, newFaceSeq)>>]

\* Tfib::erase emitting the signal after the entry has left the table
TfibErase_signalsAfterRemoval(entries, prefix) ==
  IF prefix \in DOMAIN entries
  THEN [entries |-> Remove(entries, {prefix}),
        signals |-> <<BeforeRemove(prefix, Remove(entries, {prefix}))>>]
  ELSE [entries |-> entries, signals |-> <<>>]

\* Tfib::erase
TfibErase(entries, prefix) ==
  IF prefix \in DOMAIN entries
  THEN [entries |-> Remove(entries, {prefix}),
        signals |-> <<BeforeRemove(prefix, entries)>>]
  ELSE [entries |-> entries, signals |-> <<>>]

\* the second loop of Tfib::cleanup: erase(prefix) for each collected prefix
RECURSIVE eraseEach(_, _)
eraseEach(entries, toRemove) ==
  IF toRemove = <<>> THEN [entries |-> entries, signals |-> <<>>]
  ELSE LET first == TfibErase(entries, Head(toRemove))
           rest  == eraseEach(first.entries, Tail(toRemove))
       IN  [entries |-> rest.entries, signals |-> first.signals \o rest.signals]

\* the first loop of Tfib::cleanup, leaving after the first expired entry
expiredPrefixes_firstOnly(entries, t) ==
  LET all == SortNames({p \in DOMAIN entries : isExpired(entries[p], t)})
  IN  IF all = <<>> THEN all ELSE <<Head(all)>>

\* the first loop of Tfib::cleanup: the expired prefixes, in map order
expiredPrefixes(entries, t) ==
  SortNames({p \in DOMAIN entries : isExpired(entries[p], t)})

\* Tfib::cleanup
TfibCleanup(entries, t) == eraseEach(entries, expiredPrefixes(entries, t))

\* ------------------------------------------------------------- Forwarder
\* the duplicate test finding nothing
isDuplicate_never(cache, floodId) == FALSE

\* the duplicate test: m_floodIdCache.find(*floodId) != end()
isDuplicate(cache, floodId) == floodId \in DOMAIN cache

\* the cache write left out
rememberFloodId_forgets(cache, floodId, t) == cache

\* m_floodIdCache[*floodId] = now
rememberFloodId(cache, floodId, t) == Put(cache, floodId, t)

\* the purge loop over m_floodIdCache, inverted: drops the recent flood ids
purgeFloodIds_dropsRecent(cache, t) ==
  Remove(cache, {id \in DOMAIN cache : t - cache[id] <= FLOOD_ID_TTL})

\* the purge loop over m_floodIdCache
purgeFloodIds(cache, t) ==
  Remove(cache, {id \in DOMAIN cache : t - cache[id] > FLOOD_ID_TTL})

\* the rate window check resetting at the end of the window already
rateWindow_resetsAtBoundary(count, windowStart, t) ==
  IF t - windowStart >= OPTOFLOOD_RATE_WINDOW
  THEN [count |-> 0, windowStart |-> t]
  ELSE [count |-> count, windowStart |-> windowStart]

\* the rate window check restarting the window without clearing the counter
rateWindow_keepsCount(count, windowStart, t) ==
  IF t - windowStart > OPTOFLOOD_RATE_WINDOW
  THEN [count |-> count, windowStart |-> t]
  ELSE [count |-> count, windowStart |-> windowStart]

\* the rate window check
rateWindow(count, windowStart, t) ==
  IF t - windowStart > OPTOFLOOD_RATE_WINDOW
  THEN [count |-> 0, windowStart |-> t]
  ELSE [count |-> count, windowStart |-> windowStart]

\* the rate limit test letting one more packet through
rateLimited_offByOne(count) == count > OPTOFLOOD_RATE_LIMIT_PER_SECOND

\* the rate limit test on the counter of the current window
rateLimited(count) == count >= OPTOFLOOD_RATE_LIMIT_PER_SECOND

\* the hop limit without the test for 0: the uint8_t decrement wraps
floodHopLimit_noZeroCheck(hopLimitTag) ==
  IF hopLimitTag = {} THEN [flood |-> TRUE, hopLimit |-> OPTOFLOOD_DEFAULT_HOP_LIMIT]
  ELSE LET h == CHOOSE x \in hopLimitTag : TRUE
       IN  [flood |-> TRUE, hopLimit |-> (h - 1) % 256]

\* the hop limit tested after the decrement
floodHopLimit_stopsAtOne(hopLimitTag) ==
  IF hopLimitTag = {} THEN [flood |-> TRUE, hopLimit |-> OPTOFLOOD_DEFAULT_HOP_LIMIT]
  ELSE LET h == CHOOSE x \in hopLimitTag : TRUE
       IN  IF h <= 1 THEN [flood |-> FALSE, hopLimit |-> 0]
           ELSE [flood |-> TRUE, hopLimit |-> h - 1]

\* the hop limit with the decrement applied to the default too
floodHopLimit_decrementsDefault(hopLimitTag) ==
  LET h == IF hopLimitTag = {} THEN OPTOFLOOD_DEFAULT_HOP_LIMIT
           ELSE CHOOSE x \in hopLimitTag : TRUE
  IN  IF h = 0 THEN [flood |-> FALSE, hopLimit |-> 0]
      ELSE [flood |-> TRUE, hopLimit |-> h - 1]

\* the hop limit of the copies, from the optional lp::HopLimitTag (uint8_t)
floodHopLimit(hopLimitTag) ==
  IF hopLimitTag = {} THEN [flood |-> TRUE, hopLimit |-> OPTOFLOOD_DEFAULT_HOP_LIMIT]
  ELSE LET h == CHOOSE x \in hopLimitTag : TRUE
       IN  IF h = 0 THEN [flood |-> FALSE, hopLimit |-> 0]
           ELSE [flood |-> TRUE, hopLimit |-> h - 1]

\* the flood loop without the test for the ingress face
egressFaces_withIngress(faceTable, ingress) ==
  {f \in DOMAIN faceTable : faceTable[f] = "UP"}

\* the flood loop without the test for the state of the face
egressFaces_withDownFaces(faceTable, ingress) ==
  {f \in DOMAIN faceTable : f # ingress}

\* the faces the flood loop sends to
egressFaces(faceTable, ingress) ==
  {f \in DOMAIN faceTable : f # ingress /\ faceTable[f] = "UP"}

\* Forwarder::shouldUseGuidedFlooding
shouldUseGuidedFlooding(face, traceHint) == TRUE

\* the Data flood loop keeping only the faces whose id is a byte of the
\* TraceHint
dataEgressFaces_hintedOnly(faceTable, ingress, traceHint) ==
  {f \in egressFaces(faceTable, ingress) :
     \A hint \in traceHint : \E i \in DOMAIN hint : hint[i] = f}

\* the faces the Data flood loop sends to: what shouldUseGuidedFlooding
\* answers for a TraceHint only decides a log line
dataEgressFaces(faceTable, ingress, traceHint) ==
  egressFaces(faceTable, ingress)

\* the Data flood loop leaving at the first onOutgoingData that fails
RECURSIVE sendCopies_stopsAtFailure(_, _)
sendCopies_stopsAtFailure(faces, sendFails) ==
  IF faces = {} THEN [calls |-> <<>>, floodedCount |-> 0]
  ELSE LET face == CHOOSE f \in faces : \A g \in faces : f <= g
           rest == sendCopies_stopsAtFailure(faces \ {face}, sendFails)
       IN  IF face \in sendFails
           THEN [calls |-> <<face>>, floodedCount |-> 0]
           ELSE [calls |-> <<face>> \o rest.calls,
                 floodedCount |-> rest.floodedCount + 1]

\* the onOutgoingData calls of the Data flood loop, in the order of the face
\* table, and its floodedCount; onOutgoingData returns false on the faces
\* of sendFails
RECURSIVE sendCopies(_, _)
sendCopies(faces, sendFails) ==
  IF faces = {} THEN [calls |-> <<>>, floodedCount |-> 0]
  ELSE LET face == CHOOSE f \in faces : \A g \in faces : f <= g
           rest == sendCopies(faces \ {face}, sendFails)
       IN  [calls |-> <<face>> \o rest.calls,
            floodedCount |-> rest.floodedCount +
                             IF face \in sendFails THEN 0 ELSE 1]

VARIABLES
  now,                     \* time::steady_clock::now()
  m_entries,               \* Tfib::m_entries
  nextCleanup,             \* when m_cleanupEvent is due
  m_floodIdCache,          \* Forwarder::m_floodIdCache
  m_floodPacketCount,      \* Forwarder::m_floodPacketCount
  m_floodRateWindowStart,  \* Forwarder::m_floodRateWindowStart
  m_faceTable,             \* Forwarder::m_faceTable: face id -> state
  emitted,                 \* onOutgoingData calls of the last handler run
  signals,                 \* Tfib signals emitted by the last operation
  last,                    \* the last operation, its arguments and result
  firstArrival,            \* history: when each flood id first arrived
  arrivedOn,               \* history: face and time of the last accepted Data of each prefix
  nOps,                    \* history: calls, packets and face events so far
  m_pit,                   \* in-records of the PIT entries: name and face
  outInterests,            \* onOutgoingInterest calls of the last handler run
  nCopies,                 \* history: copies emitted in the current rate window
  m_cleanupEvent,          \* Tfib::m_cleanupEvent: "scheduled" or "cancelled"
  codecIn,                 \* the metadata tuple handed to the make...Block functions
  m_appMetaInfo,           \* MetaInfo::m_appMetaInfo: the blocks added so far
  codecOut,                \* what the get... functions read back
  SOLUTION_ENABLED,        \* whether the applications were compiled with SOLUTION_ENABLED
  running,                 \* Consumer::run has sent the first Interest
  m_enableOptoFlood,       \* Consumer::m_enableOptoFlood
  m_consecutiveFailures,   \* Consumer::m_consecutiveFailures
  m_floodThreshold,        \* Consumer::m_floodThreshold
  m_forceFloodInitially,   \* Consumer::m_forceFloodInitially
  m_forceFloodConsumed,    \* Consumer::m_forceFloodConsumed
  m_sequenceNo,            \* Consumer::m_sequenceNo
  m_retransmissionQueue,   \* Consumer::m_retransmissionQueue
  m_interestsSent,         \* Consumer::m_interestsSent
  pendingInterests,        \* the Interests the consumer's Face waits on
  sendTimers,              \* scheduled sendInterest events not fired yet
  failedNames,             \* history: the names that timed out or were Nacked, in order
  sentNames,               \* history: the names expressed, in order, new or retransmitted
  m_isSolution,            \* Producer::m_isSolution
  m_hasMoved,              \* Producer::m_hasMoved
  m_mobilityEventCount,    \* Producer::m_mobilityEventCount
  movedSinceData           \* history: a mobility event came after the last Data sent

\* the state of the programs beside the forwarder
codecVars == <<codecIn, m_appMetaInfo, codecOut>>
consumerVars == <<running, m_enableOptoFlood, m_consecutiveFailures,
                  m_floodThreshold, m_forceFloodInitially, m_forceFloodConsumed,
                  m_sequenceNo, m_retransmissionQueue, m_interestsSent,
                  pendingInterests, sendTimers, failedNames, sentNames>>
producerVars == <<m_isSolution, m_hasMoved, m_mobilityEventCount, movedSinceData>>
appVars == <<codecVars, SOLUTION_ENABLED, consumerVars, producerVars>>

vars == <<now, m_entries, nextCleanup, m_floodIdCache, m_floodPacketCount,
          m_floodRateWindowStart, m_faceTable, emitted, signals, last,
          firstArrival, arrivedOn, nOps, m_pit, outInterests, nCopies, m_cleanupEvent,
          appVars>>

tfibVars  == <<m_entries, nextCleanup, m_cleanupEvent>>
floodVars == <<m_floodIdCache, m_floodPacketCount, m_floodRateWindowStart>>

EmptyMap == [k \in {} |-> 0]

\* the entry of a prefix as an optional value
EntryAt(entries, prefix) ==
  IF prefix \in DOMAIN entries THEN {entries[prefix]} ELSE {}

\* no MetaInfo has been built yet
CodecInit ==
  /\ codecIn = {}
  /\ m_appMetaInfo = <<>>
  /\ codecOut = {}

\* Consumer::Consumer and the member initialisers
ConsumerInit(solution) ==
  /\ running = FALSE
  /\ m_enableOptoFlood = solution
  /\ m_consecutiveFailures = 0
  /\ m_floodThreshold = 3
  /\ m_forceFloodInitially = FALSE
  /\ m_forceFloodConsumed = FALSE
  /\ m_sequenceNo = 0
  /\ m_retransmissionQueue = <<>>
  /\ m_interestsSent = 0
  /\ pendingInterests = {}
  /\ sendTimers = 0
  /\ failedNames = <<>>
  /\ sentNames = <<>>

\* Producer::Producer(mode) and the member initialisers
ProducerInit(mode) ==
  /\ m_isSolution = (mode = "solution")
  /\ m_hasMoved = FALSE
  /\ m_mobilityEventCount = 0
  /\ movedSinceData = FALSE

\* the applications of one build, constructed
AppsBuilt(solution, mode) ==
  /\ SOLUTION_ENABLED = solution
  /\ ConsumerInit(solution)
  /\ ProducerInit(mode)

AppInit == CodecInit /\ AppsBuilt(TRUE, "solution")

ForwarderInit ==
  /\ now = ClockAtStart
  /\ m_entries = EmptyMap
  /\ nextCleanup = ClockAtStart + CLEANUP_INTERVAL
  /\ m_floodIdCache = EmptyMap
  /\ m_floodPacketCount = 0
  /\ m_floodRateWindowStart = 0
  /\ m_faceTable = [f \in Faces |-> "UP"]
  /\ emitted = {}
  /\ signals = <<>>
  /\ last = [op |-> "init"]
  /\ firstArrival = EmptyMap
  /\ arrivedOn = EmptyMap
  /\ nOps = 0
  /\ m_pit = {}
  /\ outInterests = {}
  /\ nCopies = 0
  /\ m_cleanupEvent = "scheduled"

Init == ForwarderInit /\ AppInit

\* the applications in either build, the producer in either mode
InitApps ==
  /\ ForwarderInit
  /\ CodecInit
  /\ \E solution \in BOOLEAN, mode \in {"baseline", "solution"} :
       AppsBuilt(solution, mode)

\* the state of the forwarder
forwarderVars == <<now, tfibVars, floodVars, m_faceTable, emitted, signals,
                   firstArrival, arrivedOn, nOps, m_pit, outInterests, nCopies>>

\* the clock advances between two events; a behaviour starts with its
\* first event and the clock is not followed after its last one
Tick(steps, until, maxOps) ==
  /\ nOps > 0
  /\ nOps < maxOps
  /\ \E d \in steps : now + d <= until /\ now' = now + d
  /\ emitted' = {}
  /\ outInterests' = {}
  /\ signals' = <<>>
  /\ last' = [op |-> "tick"]
  /\ UNCHANGED appVars
  /\ UNCHANGED <<tfibVars, floodVars, m_faceTable, firstArrival, arrivedOn, nOps, m_pit, nCopies>>

\* the timer callback returning without the call of scheduleCleanup
scheduleCleanup_notRearmed(t) ==
  [event |-> "cancelled", due |-> t + CLEANUP_INTERVAL]

\* Tfib::scheduleCleanup: m_cleanupEvent holds an event due in CLEANUP_INTERVAL
scheduleCleanup(t) ==
  [event |-> "scheduled", due |-> t + CLEANUP_INTERVAL]

\* a timer of the scheduler fires: cleanup(), then scheduleCleanup()
Cleanup ==
  /\ m_cleanupEvent = "scheduled"
  /\ now >= nextCleanup
  /\ UNCHANGED appVars
  /\ LET r == TfibCleanup(m_entries, now)
     IN  /\ m_entries' = r.entries
         /\ signals' = r.signals
  /\ m_cleanupEvent' = scheduleCleanup(now).event
  /\ nextCleanup' = scheduleCleanup(now).due
  /\ emitted' = {}
  /\ outInterests' = {}
  /\ last' = [op |-> "cleanup"]
  /\ UNCHANGED <<now, floodVars, m_faceTable, firstArrival, arrivedOn, nOps, m_pit, nCopies>>

\* a caller of the public Tfib::insert
Insert(prefix, face, newFaceSeq, floodId) ==
  /\ nOps < MaxCalls
  /\ m_cleanupEvent = "scheduled"
  /\ UNCHANGED <<m_cleanupEvent, appVars>>
  /\ face \in DOMAIN m_faceTable
  /\ LET r == TfibInsert(m_entries, prefix, face, newFaceSeq, floodId, now)
     IN  /\ m_entries' = r.entries
         /\ signals' = r.signals
  /\ emitted' = {}
  /\ outInterests' = {}
  /\ last' = [op |-> "insert", at |-> now, prefix |-> prefix, face |-> face,
              newFaceSeq |-> newFaceSeq, floodId |-> floodId,
              before |-> EntryAt(m_entries, prefix)]
  /\ nOps' = nOps + 1
  /\ UNCHANGED <<now, nextCleanup, floodVars, m_faceTable, firstArrival, arrivedOn, m_pit, nCopies>>

\* a caller of the public Tfib::erase
Erase(prefix) ==
  /\ nOps < MaxCalls
  /\ m_cleanupEvent = "scheduled"
  /\ UNCHANGED <<m_cleanupEvent, appVars>>
  /\ LET r == TfibErase(m_entries, prefix)
     IN  /\ m_entries' = r.entries
         /\ signals' = r.signals
  /\ emitted' = {}
  /\ outInterests' = {}
  /\ last' = [op |-> "erase", at |-> now, prefix |-> prefix,
              before |-> EntryAt(m_entries, prefix)]
  /\ nOps' = nOps + 1
  /\ UNCHANGED <<now, nextCleanup, floodVars, m_faceTable, firstArrival, arrivedOn, m_pit, nCopies>>

\* a caller of findLongestPrefixMatch (exact = FALSE) or findExactMatch
Lookup(name, exact) ==
  /\ nOps < MaxCalls
  /\ m_cleanupEvent = "scheduled"
  /\ UNCHANGED appVars
  /\ LET found == IF exact THEN findExactMatch(m_entries, name, now)
                  ELSE findLongestPrefixMatch(m_entries, name, now)
     IN  last' = [op |-> "lookup", at |-> now, name |-> name, exact |-> exact,
                  found |-> found,
                  entry |-> {m_entries[p] : p \in found}]
  /\ emitted' = {}
  /\ outInterests' = {}
  /\ signals' = <<>>
  /\ nOps' = nOps + 1
  /\ UNCHANGED <<now, tfibVars, floodVars, m_faceTable, firstArrival, arrivedOn, m_pit, nCopies>>

\* a caller of the public Tfib::clear: the map is emptied, no signal is
\* emitted, the sweep stays armed
Clear ==
  /\ nOps < MaxCalls
  /\ m_cleanupEvent = "scheduled"
  /\ m_entries' = EmptyMap
  /\ signals' = <<>>
  /\ emitted' = {}
  /\ outInterests' = {}
  /\ last' = [op |-> "clear", at |-> now, before |-> m_entries]
  /\ nOps' = nOps + 1
  /\ UNCHANGED <<now, nextCleanup, m_cleanupEvent, floodVars, m_faceTable,
                 firstArrival, arrivedOn, m_pit, nCopies, appVars>>

\* the members of a Tfib destroyed without the event being cancelled
DestroyMembers_keepsEvent ==
  /\ m_cleanupEvent' = m_cleanupEvent
  /\ m_entries' = EmptyMap

\* the members of a Tfib destroyed: the scheduler::ScopedEventId cancels its
\* event, the map frees its entries
DestroyMembers ==
  /\ m_cleanupEvent' = "cancelled"
  /\ m_entries' = EmptyMap

\* Tfib::~Tfib (implicit), run when the owner of the Tfib shuts down
Destroy ==
  /\ nOps < MaxCalls
  /\ m_cleanupEvent = "scheduled"
  /\ DestroyMembers
  /\ signals' = <<>>
  /\ emitted' = {}
  /\ outInterests' = {}
  /\ last' = [op |-> "destroy", at |-> now, before |-> m_entries]
  /\ nOps' = nOps + 1
  /\ UNCHANGED <<now, nextCleanup, floodVars, m_faceTable, firstArrival, arrivedOn,
                 m_pit, nCopies, appVars>>

\* the transport of a face goes DOWN or comes back UP
FaceState(face) ==
  /\ nOps < MaxPackets
  /\ UNCHANGED appVars
  /\ face \in DOMAIN m_faceTable
  /\ m_faceTable' = [m_faceTable EXCEPT
                       ![face] = IF @ = "UP" THEN "DOWN" ELSE "UP"]
  /\ emitted' = {}
  /\ outInterests' = {}
  /\ signals' = <<>>
  /\ last' = [op |-> "faceState", at |-> now, face |-> face]
  /\ nOps' = nOps + 1
  /\ UNCHANGED <<now, tfibVars, floodVars, firstArrival, arrivedOn, m_pit, nCopies>>

\* a face is torn down and leaves the face table; class Tfib has no
\* operation that the face manager could call, so the table is left alone
FaceClose(face) ==
  /\ nOps < MaxPackets
  /\ UNCHANGED appVars
  /\ face \in DOMAIN m_faceTable
  /\ m_faceTable' = Remove(m_faceTable, {face})
  /\ emitted' = {}
  /\ outInterests' = {}
  /\ signals' = <<>>
  /\ last' = [op |-> "faceClose", at |-> now, face |-> face]
  /\ nOps' = nOps + 1
  /\ UNCHANGED <<now, tfibVars, floodVars, firstArrival, arrivedOn, m_pit, nCopies>>

\* the names of the Data of one producer: /1, /1/1, ...
DataNames == {n \in Names : Len(n) >= 1 /\ \A i \in 1..Len(n) : n[i] = 1}

\* the TraceHint values a Data carries: getTraceHint gives nullopt for an
\* empty block, so a hint that is present has at least one byte
TraceHints == {<<1>>}

\* mobility-marked Data: the name and what getFloodId, getNewFaceSeq,
\* getTraceHint and getTag<lp::HopLimitTag> return for it.  getFloodId and
\* getNewFaceSeq return nullopt for an absent block and for one whose value
\* does not decode.
\* A Data that carries a TraceHint is taken without a hop-limit tag.
DataPackets ==
  {d \in [name        : DataNames,
          floodId     : {{}} \cup {{i} : i \in FloodIds},
          newFaceSeq  : {{}} \cup {{q} : q \in Seqs},
          traceHint   : {{}} \cup {{h} : h \in TraceHints},
          hopLimitTag : {{}} \cup {{h} : h \in HopTags}] :
     d.traceHint # {} => d.hopLimitTag = {}}

The(opt) == CHOOSE x \in opt : TRUE

\* the test for the required fields
missingRequiredField(data) == data.floodId = {} \/ data.newFaceSeq = {}

\* a return of handleOptoFloodData after a write to the rate counter
DropData_countsPacket(done) ==
  /\ last' = done
  /\ emitted' = {}
  /\ outInterests' = {}
  /\ signals' = <<>>
  /\ m_floodPacketCount' = m_floodPacketCount + 1
  /\ UNCHANGED <<now, tfibVars, m_floodIdCache, m_floodRateWindowStart,
                 m_faceTable, m_pit, nCopies>>

\* the two returns of handleOptoFloodData that come before any write
DropData(done) ==
  /\ last' = done
  /\ emitted' = {}
  /\ outInterests' = {}
  /\ signals' = <<>>
  /\ UNCHANGED <<now, tfibVars, floodVars, m_faceTable, m_pit, nCopies>>

\* Forwarder::handleOptoFloodData
HandleOptoFloodData(data, ingress, sendFails, maxOps) ==
  LET missing == missingRequiredField(data)
      done(outcome, sent) ==
        [op |-> "data", at |-> now, data |-> data,
         ingress |-> ingress, outcome |-> outcome,
         before |-> EntryAt(m_entries, getPrefix(data.name)),
         sendFails |-> sendFails, calls |-> sent.calls,
         floodedCount |-> sent.floodedCount]
      noCopies == sendCopies({}, {})
  IN
  /\ nOps < maxOps
  /\ UNCHANGED appVars
  /\ ingress \in DOMAIN m_faceTable
  /\ m_faceTable[ingress] = "UP"
  /\ nOps' = nOps + 1
  /\ arrivedOn' =
       IF missing \/ isDuplicate(m_floodIdCache, The(data.floodId))
       THEN arrivedOn
       ELSE Put(arrivedOn, getPrefix(data.name), [face |-> ingress, at |-> now])
  /\ firstArrival' =
       IF missing \/ The(data.floodId) \in DOMAIN firstArrival
       THEN firstArrival
       ELSE Put(firstArrival, The(data.floodId), now)
  /\ IF missing
     THEN sendFails = {} /\ DropData(done("missingField", noCopies))
     ELSE IF isDuplicate(m_floodIdCache, The(data.floodId))
     THEN sendFails = {} /\ DropData(done("duplicate", noCopies))
     ELSE LET floodId == The(data.floodId)
              ins     == TfibInsert(m_entries, getPrefix(data.name), ingress,
                                    The(data.newFaceSeq), floodId, now)
              rw      == rateWindow(m_floodPacketCount, m_floodRateWindowStart, now)
              hop     == floodHopLimit(data.hopLimitTag)
              outcome == IF rateLimited(rw.count)
                         THEN "rateLimited"
                         ELSE IF ~hop.flood THEN "hopLimit" ELSE "flooded"
              sent    == IF outcome = "flooded"
                         THEN sendCopies(dataEgressFaces(m_faceTable, ingress,
                                                         data.traceHint),
                                         sendFails)
                         ELSE noCopies
              copies  == {[face |-> sent.calls[i], hopLimit |-> hop.hopLimit] :
                            i \in DOMAIN sent.calls}
          IN  /\ sendFails \subseteq {c.face : c \in copies}
              /\ m_floodIdCache' =
                   purgeFloodIds(rememberFloodId(m_floodIdCache, floodId, now), now)
              /\ m_entries' = ins.entries
              /\ signals' = ins.signals
              /\ m_floodRateWindowStart' = rw.windowStart
              /\ m_floodPacketCount' =
                   IF outcome = "rateLimited" THEN rw.count ELSE rw.count + 1
              /\ emitted' = copies
              /\ nCopies' = IF rw.windowStart = m_floodRateWindowStart
                            THEN nCopies + Cardinality(copies)
                            ELSE Cardinality(copies)
              /\ outInterests' = {}
              /\ last' = done(outcome, sent)
              /\ UNCHANGED <<now, nextCleanup, m_cleanupEvent, m_faceTable,
                             m_pit>>

\* ------------------------------------------------------------- Interests
\* the names of the Interests: the Data names and every one-component name
InterestNames == DataNames \cup {n \in Names : Len(n) = 1}

\* the hop limits an Interest arrives with: spent, last hop, one more
InterestHops == {0, 1, 2}

\* an Interest: name, optional HopLimit, ApplicationParameters present or
\* not.  An Interest without parameters is taken without a hop limit.
Interests ==
  {i \in [name      : InterestNames,
          hopLimit  : {{}} \cup {{h} : h \in InterestHops},
          hasParams : BOOLEAN] :
     ~i.hasParams => i.hopLimit = {}}

\* Forwarder::shouldFloodInterest answering yes for every Interest
shouldFloodInterest_always(interest) == TRUE

\* Forwarder::shouldFloodInterest
shouldFloodInterest(interest) == interest.hasParams

\* the hop limit of the flooded Interests without the test for zero: the
\* 8-bit decrement wraps
interestHopLimit_noZeroCheck(hopLimit) ==
  IF hopLimit = {} THEN [flood |-> TRUE, hopLimit |-> OPTOFLOOD_DEFAULT_HOP_LIMIT]
  ELSE [flood |-> TRUE, hopLimit |-> (The(hopLimit) + 255) % 256]

\* the hop limit of the flooded Interests, from the optional HopLimit
interestHopLimit(hopLimit) ==
  IF hopLimit = {} THEN [flood |-> TRUE, hopLimit |-> OPTOFLOOD_DEFAULT_HOP_LIMIT]
  ELSE IF The(hopLimit) = 0 THEN [flood |-> FALSE, hopLimit |-> 0]
  ELSE [flood |-> TRUE, hopLimit |-> The(hopLimit) - 1]

\* Forwarder::handleInterestFlooding: the onOutgoingInterest calls it makes.
\* Its traceHint is declared and never assigned.
handleInterestFlooding(interest, ingress, faceTable) ==
  LET hop == interestHopLimit(interest.hopLimit)
      traceHint == {}
  IN  IF hop.flood
      THEN {[face |-> f, hopLimit |-> {hop.hopLimit}] :
              f \in {g \in egressFaces(faceTable, ingress) :
                       \A hint \in traceHint : shouldUseGuidedFlooding(g, hint)}}
      ELSE {}

\* pit::Entry::insertOrUpdateInRecord
insertOrUpdateInRecord(pit, name, face) == pit \cup {[name |-> name, face |-> face]}

\* Forwarder::onContentStoreMissWithOptoFlood.  fibHasNextHops is what
\* m_fib.findLongestPrefixMatch(*pitEntry).hasNextHops() returns.  An entry
\* whose face has left the face table holds a dangling Face&: the run ends
\* there (sent = {}) or goes on with whatever face is found at that place.
OnContentStoreMiss(interest, ingress, fibHasNextHops) ==
  LET hit == findLongestPrefixMatch(m_entries, interest.name, now)
      done(path, face) ==
        [op |-> "interest", at |-> now, interest |-> interest,
         ingress |-> ingress, fibHasNextHops |-> fibHasNextHops,
         found |-> hit, entry |-> {m_entries[p] : p \in hit},
         path |-> path, face |-> face]
  IN
  /\ nOps < MaxCalls
  /\ UNCHANGED appVars
  /\ ingress \in DOMAIN m_faceTable
  /\ m_faceTable[ingress] = "UP"
  /\ nOps' = nOps + 1
  /\ emitted' = {}
  /\ signals' = <<>>
  /\ UNCHANGED <<now, tfibVars, floodVars, m_faceTable, firstArrival, arrivedOn, nCopies>>
  /\ IF hit # {}
     THEN LET entry == m_entries[The(hit)]
          IN  \E sent \in IF entry.face \in DOMAIN m_faceTable
                          THEN {{entry.face}}
                          ELSE {{}} \cup {{f} : f \in Faces} :
                /\ m_pit' = IF sent = {} THEN m_pit
                            ELSE insertOrUpdateInRecord(m_pit, interest.name, ingress)
                /\ outInterests' =
                     {[face |-> f, hopLimit |-> interest.hopLimit] : f \in sent}
                /\ last' = done("tfib", sent)
     ELSE IF ~fibHasNextHops /\ shouldFloodInterest(interest)
     THEN /\ m_pit' = m_pit
          /\ outInterests' = handleInterestFlooding(interest, ingress, m_faceTable)
          /\ last' = done("flood", {})
     ELSE /\ m_pit' = insertOrUpdateInRecord(m_pit, interest.name, ingress)
          /\ outInterests' = {}
          /\ last' = done("strategy", {})

\* ----------------------------------------------------- the metadata codec
\* the values tried for FloodId and NewFaceSeq: around the ends of the 1-,
\* 2- and 4-byte encodings
WireValues == {0, 255, 256, 65535, 65536, 2147483647}

\* the TraceHints tried: empty, one byte, two bytes, 255 bytes
CodecHints == {<<>>, <<0>>, <<1, 2>>, [i \in 1..255 |-> 255]}

\* the metadata tuples: MobilityFlag present or not, FloodId, NewFaceSeq,
\* TraceHint absent or present
CodecTuples ==
  [mobilityFlag : BOOLEAN, floodId : WireValues, newFaceSeq : WireValues,
   traceHint : {{}} \cup {{h} : h \in CodecHints}]

\* the n low bytes of v, most significant first
RECURSIVE toBytes(_, _)
toBytes(v, n) ==
  IF n = 0 THEN <<>> ELSE Append(toBytes(v \div 256, n - 1), v % 256)

\* the number a byte string spells, most significant byte first
RECURSIVE fromBytes(_)
fromBytes(bytes) ==
  IF bytes = <<>> THEN 0
  ELSE fromBytes(SubSeq(bytes, 1, Len(bytes) - 1)) * 256 + bytes[Len(bytes)]

\* makeNonNegativeIntegerBlock: the shortest of 1, 2, 4, 8 bytes
makeNonNegativeIntegerBlock(type, v) ==
  [type |-> type,
   value |-> toBytes(v, IF v <= 255 THEN 1
                        ELSE IF v <= 65535 THEN 2
                        ELSE IF v \div 65536 <= 65535 THEN 4 ELSE 8)]

\* readNonNegativeInteger: the value, or nothing where it throws tlv::Error
readNonNegativeInteger(block) ==
  IF Len(block.value) \in {1, 2, 4, 8} THEN {fromBytes(block.value)} ELSE {}

makeMobilityFlagBlock == [type |-> MobilityFlag, value |-> <<>>]

makeFloodIdBlock(floodId) == makeNonNegativeIntegerBlock(FloodId, floodId)

makeNewFaceSeqBlock(seq) == makeNonNegativeIntegerBlock(NewFaceSeq, seq)

\* makeBinaryBlock(tlv::TraceHint, hint.data(), hint.size())
makeTraceHintBlock(hint) == [type |-> TraceHint, value |-> hint]

\* MetaInfo::findAppMetaInfo: the first block of the type, if any
findAppMetaInfo(app, type) ==
  LET at == {i \in DOMAIN app : app[i].type = type}
  IN  {app[i] : i \in {j \in at : \A k \in at : j <= k}}

hasMobilityFlag(app) == findAppMetaInfo(app, MobilityFlag) # {}

getFloodId(app) ==
  UNION {readNonNegativeInteger(b) : b \in findAppMetaInfo(app, FloodId)}

\* static_cast<uint32_t>: the four low bytes of the value
getNewFaceSeq(app) ==
  UNION {{fromBytes(toBytes(v, 4)) : v \in readNonNegativeInteger(b)} :
           b \in findAppMetaInfo(app, NewFaceSeq)}

getTraceHint(app) ==
  {b.value : b \in {c \in findAppMetaInfo(app, TraceHint) : Len(c.value) > 0}}

\* the blocks of a tuple, added in the order the producer adds them
encodeTuple(t) ==
  (IF t.mobilityFlag THEN <<makeMobilityFlagBlock>> ELSE <<>>)
  \o <<makeFloodIdBlock(t.floodId), makeNewFaceSeqBlock(t.newFaceSeq)>>
  \o (IF t.traceHint # {} THEN <<makeTraceHintBlock(The(t.traceHint))>> ELSE <<>>)

\* what the four readers return for a MetaInfo
decodeTuple(app) ==
  [mobilityFlag |-> hasMobilityFlag(app), floodId |-> getFloodId(app),
   newFaceSeq |-> getNewFaceSeq(app), traceHint |-> getTraceHint(app)]

\* a MetaInfo is built from a tuple
Encode(t) ==
  /\ codecIn = {}
  /\ codecIn' = {t}
  /\ m_appMetaInfo' = encodeTuple(t)
  /\ codecOut' = {}
  /\ last' = [op |-> "encode"]
  /\ UNCHANGED <<forwarderVars, SOLUTION_ENABLED, consumerVars, producerVars>>

\* the MetaInfo is read back
Decode ==
  /\ codecIn # {}
  /\ codecOut = {}
  /\ codecOut' = {decodeTuple(m_appMetaInfo)}
  /\ last' = [op |-> "decode"]
  /\ UNCHANGED <<forwarderVars, codecIn, m_appMetaInfo, SOLUTION_ENABLED,
                 consumerVars, producerVars>>

NextCodec ==
  \/ \E t \in CodecTuples : Encode(t)
  \/ Decode

SpecCodec == Init /\ [][NextCodec]_vars

\* ------------------------------------------------------------ the consumer
\* the thresholds --flood-threshold is tried with
FloodThresholds == {2}

\* Consumer::shouldEnableFlooding: its answer and what it leaves in
\* m_forceFloodConsumed
shouldEnableFlooding ==
  IF ~m_enableOptoFlood
  THEN [flood |-> FALSE, forceConsumed |-> m_forceFloodConsumed]
  ELSE IF m_forceFloodInitially /\ ~m_forceFloodConsumed
  THEN [flood |-> TRUE, forceConsumed |-> TRUE]
  ELSE [flood |-> m_consecutiveFailures >= m_floodThreshold,
        forceConsumed |-> m_forceFloodConsumed]

\* what expressInterest puts into an Interest that is to be flooded: the
\* parameters and the hop limit are compiled in with SOLUTION_ENABLED only
floodMarks(flood) ==
  IF flood /\ SOLUTION_ENABLED
  THEN [hasParams |-> TRUE, hopLimit |-> {DEFAULT_FLOOD_HOP_LIMIT}]
  ELSE [hasParams |-> FALSE, hopLimit |-> {}]

\* Consumer::expressInterest
expressInterest(name) ==
  LET should == shouldEnableFlooding
      marks  == floodMarks(should.flood)
      interest == [id |-> m_interestsSent + 1, name |-> name,
                   hasParams |-> marks.hasParams, hopLimit |-> marks.hopLimit]
  IN  /\ m_interestsSent' = m_interestsSent + 1
      /\ m_forceFloodConsumed' = should.forceConsumed
      /\ m_consecutiveFailures' = IF should.flood THEN 0 ELSE m_consecutiveFailures
      /\ pendingInterests' = pendingInterests \cup {interest}
      /\ last' = [op |-> "express", interest |-> interest,
                  enabled |-> m_enableOptoFlood,
                  failures |-> m_consecutiveFailures,
                  threshold |-> m_floodThreshold,
                  forcePending |-> m_forceFloodInitially /\ ~m_forceFloodConsumed]

\* the retransmission taking the newest name of the queue
front_newest(queue) == queue[Len(queue)]

\* m_retransmissionQueue.front()
front(queue) == Head(queue)

\* Consumer::sendInterest, with `armed` sendInterest events still scheduled
sendInterest(armed) ==
  /\ m_interestsSent < MaxSends
  /\ IF m_retransmissionQueue # <<>>
     THEN /\ m_retransmissionQueue' = Tail(m_retransmissionQueue)
          /\ expressInterest(front(m_retransmissionQueue))
          /\ sendTimers' = armed + 1
          /\ m_sequenceNo' = m_sequenceNo
          /\ sentNames' = Append(sentNames, [name |-> front(m_retransmissionQueue),
                                             retransmission |-> TRUE])
     ELSE /\ expressInterest(m_sequenceNo)
          /\ m_sequenceNo' = m_sequenceNo + 1
          /\ sendTimers' = armed
          /\ m_retransmissionQueue' = m_retransmissionQueue
          /\ sentNames' = Append(sentNames, [name |-> m_sequenceNo,
                                             retransmission |-> FALSE])
  /\ UNCHANGED <<forwarderVars, codecVars, SOLUTION_ENABLED, producerVars,
                 m_enableOptoFlood, m_floodThreshold, m_forceFloodInitially,
                 failedNames>>

\* what main leaves alone while it reads the command line
ConsumerConfigured ==
  /\ ~running
  /\ last' = [op |-> "configure"]
  /\ UNCHANGED <<forwarderVars, codecVars, SOLUTION_ENABLED, producerVars,
                 running, m_consecutiveFailures, m_forceFloodConsumed,
                 m_sequenceNo, m_retransmissionQueue, m_interestsSent,
                 pendingInterests, sendTimers, failedNames, sentNames>>

\* Consumer::enableOptoFlood
EnableOptoFlood(enable) ==
  /\ ConsumerConfigured
  /\ m_enableOptoFlood' = enable
  /\ UNCHANGED <<m_floodThreshold, m_forceFloodInitially>>

\* Consumer::setFloodThreshold
SetFloodThreshold(threshold) ==
  /\ ConsumerConfigured
  /\ m_floodThreshold' = threshold
  /\ UNCHANGED <<m_enableOptoFlood, m_forceFloodInitially>>

\* Consumer::forceFloodOnce
ForceFloodOnce ==
  /\ ConsumerConfigured
  /\ m_forceFloodInitially' = TRUE
  /\ m_enableOptoFlood' = TRUE
  /\ UNCHANGED m_floodThreshold

\* Consumer::run: the first sendInterest
Run ==
  /\ ~running
  /\ running' = TRUE
  /\ sendInterest(sendTimers)

\* a scheduled sendInterest event fires
SendTimerFires ==
  /\ sendTimers > 0
  /\ running' = running
  /\ sendInterest(sendTimers - 1)

\* what the three answers to an Interest have in common: the Interest is
\* no longer pending and the next sendInterest is scheduled
Answered(interest, op) ==
  /\ interest \in pendingInterests
  /\ pendingInterests' = pendingInterests \ {interest}
  /\ sendTimers' = sendTimers + 1
  /\ last' = [op |-> op, interest |-> interest]
  /\ UNCHANGED <<forwarderVars, codecVars, SOLUTION_ENABLED, producerVars,
                 running, m_enableOptoFlood, m_floodThreshold,
                 m_forceFloodInitially, m_forceFloodConsumed, m_sequenceNo,
                 m_interestsSent, sentNames>>

\* Consumer::onData; the validator schedules the next sendInterest whether
\* the signature verifies or not
OnData(interest) ==
  /\ Answered(interest, "onData")
  /\ m_consecutiveFailures' = 0
  /\ m_retransmissionQueue' = m_retransmissionQueue
  /\ failedNames' = failedNames

\* Consumer::onNack
OnNack(interest) ==
  /\ Answered(interest, "onNack")
  /\ m_consecutiveFailures' = m_consecutiveFailures + 1
  /\ m_retransmissionQueue' = Append(m_retransmissionQueue, interest.name)
  /\ failedNames' = Append(failedNames, interest.name)

\* Consumer::onTimeout
OnTimeout(interest) ==
  /\ Answered(interest, "onTimeout")
  /\ m_consecutiveFailures' = m_consecutiveFailures + 1
  /\ m_retransmissionQueue' = Append(m_retransmissionQueue, interest.name)
  /\ failedNames' = Append(failedNames, interest.name)

\* the consumer from main to the end of its sends
NextConsumer ==
  \/ \E enable \in BOOLEAN : EnableOptoFlood(enable)
  \/ \E threshold \in FloodThresholds : SetFloodThreshold(threshold)
  \/ ForceFloodOnce
  \/ Run
  \/ SendTimerFires
  \/ \E interest \in pendingInterests : OnData(interest)
  \/ \E interest \in pendingInterests : OnNack(interest)
  \/ \E interest \in pendingInterests : OnTimeout(interest)

SpecConsumer == InitApps /\ [][NextConsumer]_vars

\* the scheduler runs the sendInterest events that are due
SpecConsumerFair == SpecConsumer /\ WF_vars(SendTimerFires)

\* ------------------------------------------------------------ the producer
\* the clock between two events at the producer
ProducerTimeSteps == {1}
ProducerMaxTime   == ClockAtStart + MaxEvents

\* what the producer's handlers leave alone
ProducerEvent ==
  /\ nOps < MaxEvents
  /\ nOps' = nOps + 1
  /\ UNCHANGED <<now, tfibVars, floodVars, m_faceTable, emitted, signals,
                 firstArrival, arrivedOn, m_pit, outInterests, nCopies, codecVars,
                 SOLUTION_ENABLED, consumerVars, m_isSolution>>

\* Producer::onMobilityEvent
OnMobilityEvent ==
  /\ ProducerEvent
  /\ m_hasMoved' = TRUE
  /\ m_mobilityEventCount' = m_mobilityEventCount + 1
  /\ movedSinceData' = TRUE
  /\ last' = [op |-> "onMobilityEvent"]

\* Producer::onLinkUp, the callback the Netlink listener of a producer in
\* solution mode is built with
OnLinkUp ==
  /\ ProducerEvent
  /\ m_isSolution
  /\ m_hasMoved' = TRUE
  /\ m_mobilityEventCount' = m_mobilityEventCount
  /\ movedSinceData' = TRUE
  /\ last' = [op |-> "onLinkUp"]

\* the markers onInterest adds to a Data after a move
mobilityMarkers(timestamp) ==
  encodeTuple([mobilityFlag |-> TRUE, floodId |-> timestamp,
               newFaceSeq |-> m_mobilityEventCount, traceHint |-> {<<1, 2>>}])

\* Producer::onInterest: the Data it puts on the face; the markers are
\* compiled in with SOLUTION_ENABLED only
OnInterest(name) ==
  LET attach == SOLUTION_ENABLED /\ m_isSolution /\ m_hasMoved
  IN  /\ ProducerEvent
      /\ m_hasMoved' = IF attach THEN FALSE ELSE m_hasMoved
      /\ m_mobilityEventCount' = m_mobilityEventCount
      /\ movedSinceData' = FALSE
      /\ last' = [op |-> "put", at |-> now, name |-> name,
                  appMetaInfo |-> IF attach THEN mobilityMarkers(now) ELSE <<>>,
                  moved |-> movedSinceData]

\* the producer: mobility events, Interests and the clock
NextProducer ==
  \/ Tick(ProducerTimeSteps, ProducerMaxTime, MaxEvents)
  \/ OnMobilityEvent
  \/ OnLinkUp
  \/ \E name \in DataNames : OnInterest(name)

SpecProducer == InitApps /\ [][NextProducer]_vars

\* the forwarder: packets, face events, the clock and the sweep timer
Next ==
  \/ Tick(TimeSteps, MaxTime, MaxPackets)
  \/ Cleanup
  \/ \E face \in Faces : FaceState(face)
  \/ \E face \in Faces : FaceClose(face)
  \/ \E data \in DataPackets, ingress \in Faces :
       HandleOptoFloodData(data, ingress, {}, MaxPackets)

Spec == Init /\ [][Next]_vars

\* the Tfib on its own: its public interface, the clock and the sweep timer
NextTfib ==
  \/ Tick(TfibTimeSteps, TfibMaxTime, MaxCalls)
  \/ Cleanup
  \/ \E prefix \in Prefixes, face \in Faces, newFaceSeq \in Seqs, floodId \in FloodIds :
       Insert(prefix, face, newFaceSeq, floodId)
  \/ \E prefix \in Prefixes : Erase(prefix)
  \/ \E name \in Names, exact \in BOOLEAN : Lookup(name, exact)

SpecTfib == Init /\ [][NextTfib]_vars

\* the prefixes used up to the end of the Tfib's life
ShutdownPrefixes == {p \in Prefixes : Len(p) <= 1}

\* the Tfib from construction to destruction: inserts, the clock, the sweep
\* timer, clear() and the destructor
NextShutdown ==
  \/ Tick(TfibTimeSteps, TfibMaxTime, MaxCalls)
  \/ Cleanup
  \/ \E prefix \in ShutdownPrefixes, face \in Faces :
       Insert(prefix, face, 1, 1)
  \/ Clear
  \/ Destroy

SpecShutdown == Init /\ [][NextShutdown]_vars

\* the prefixes whose entries the sweep is followed on
SweepPrefixes == {p \in Prefixes : \A i \in 1..Len(p) : p[i] = 1}

\* what a slot connected to beforeRemove does when it is called: nothing, or
\* a call of insert or of erase on the Tfib that emitted the signal
Handlers ==
  {[call |-> "none"]}
  \cup {[call |-> "insert", prefix |-> q, face |-> 2, newFaceSeq |-> 1,
         floodId |-> i] : q \in SweepPrefixes, i \in FloodIds}
  \cup {[call |-> "erase", prefix |-> q] : q \in SweepPrefixes}

\* the call a slot makes from inside the emission of the signal
runHandler(entries, handler, t) ==
  IF handler.call = "insert"
  THEN TfibInsert(entries, handler.prefix, handler.face, handler.newFaceSeq,
                  handler.floodId, t)
  ELSE IF handler.call = "erase"
  THEN TfibErase(entries, handler.prefix)
  ELSE [entries |-> entries, signals |-> <<>>]

\* Tfib::erase with a slot connected to beforeRemove: find, emit (the slot
\* runs here), m_entries.erase(it).  The outcomes are a set: when the slot
\* has erased the element `it` points at, erase(it) is undefined and may
\* leave the map as it is or take any element out of it.
eraseWithHandler(entries, prefix, handler, t) ==
  IF prefix \notin DOMAIN entries
  THEN {[entries |-> entries, signals |-> <<>>, removed |-> <<>>,
         invalidIterator |-> FALSE]}
  ELSE LET h    == runHandler(entries, handler, t)
           sigs == <<BeforeRemove(prefix, entries)>> \o h.signals
           gone == IF handler.call = "erase" /\ handler.prefix \in DOMAIN entries
                   THEN <<[prefix |-> handler.prefix,
                           entry |-> entries[handler.prefix]]>>
                   ELSE <<>>
       IN  IF prefix \in DOMAIN h.entries
           THEN {[entries |-> Remove(h.entries, {prefix}), signals |-> sigs,
                  removed |-> gone \o <<[prefix |-> prefix,
                                         entry |-> h.entries[prefix]]>>,
                  invalidIterator |-> FALSE]}
           ELSE {[entries |-> Remove(h.entries, S), signals |-> sigs,
                  removed |-> gone, invalidIterator |-> TRUE] :
                   S \in {{}} \cup {{k} : k \in DOMAIN h.entries}}

\* the second loop of Tfib::cleanup with a slot connected to beforeRemove
RECURSIVE eraseEachWithHandler(_, _, _, _)
eraseEachWithHandler(entries, toRemove, handler, t) ==
  IF toRemove = <<>>
  THEN {[entries |-> entries, signals |-> <<>>, removed |-> <<>>,
         invalidIterator |-> FALSE]}
  ELSE UNION {
         {[entries |-> rest.entries,
           signals |-> first.signals \o rest.signals,
           removed |-> first.removed \o rest.removed,
           invalidIterator |-> first.invalidIterator \/ rest.invalidIterator] :
            rest \in eraseEachWithHandler(first.entries, Tail(toRemove), handler, t)} :
         first \in eraseWithHandler(entries, Head(toRemove), handler, t)}

\* a caller of Tfib::erase while a slot is connected to beforeRemove
EraseWithHandler(prefix, handler) ==
  /\ nOps < MaxCalls
  /\ m_cleanupEvent = "scheduled"
  /\ \E r \in eraseWithHandler(m_entries, prefix, handler, now) :
       /\ m_entries' = r.entries
       /\ signals' = r.signals
       /\ last' = [op |-> "eraseWithHandler", at |-> now, handler |-> handler,
                   removed |-> r.removed, invalidIterator |-> r.invalidIterator]
  /\ emitted' = {}
  /\ outInterests' = {}
  /\ nOps' = nOps + 1
  /\ UNCHANGED <<now, nextCleanup, m_cleanupEvent, floodVars, m_faceTable,
                 firstArrival, arrivedOn, m_pit, nCopies, appVars>>

\* the timer fires while a slot is connected to beforeRemove
CleanupWithHandler(handler) ==
  /\ m_cleanupEvent = "scheduled"
  /\ now >= nextCleanup
  /\ \E r \in eraseEachWithHandler(m_entries, expiredPrefixes(m_entries, now),
                                   handler, now) :
       /\ m_entries' = r.entries
       /\ signals' = r.signals
       /\ last' = [op |-> "cleanupWithHandler", at |-> now, handler |-> handler,
                   removed |-> r.removed, invalidIterator |-> r.invalidIterator]
  /\ m_cleanupEvent' = scheduleCleanup(now).event
  /\ nextCleanup' = scheduleCleanup(now).due
  /\ emitted' = {}
  /\ outInterests' = {}
  /\ UNCHANGED <<now, floodVars, m_faceTable, firstArrival, arrivedOn, nOps, m_pit,
                 nCopies, appVars>>

\* the Tfib with a slot connected to beforeRemove
NextHandler ==
  \/ Tick(TfibTimeSteps, TfibMaxTime, MaxCalls)
  \/ \E prefix \in SweepPrefixes, floodId \in FloodIds :
       Insert(prefix, 1, 1, floodId)
  \/ \E prefix \in SweepPrefixes, handler \in Handlers :
       EraseWithHandler(prefix, handler)
  \/ \E handler \in Handlers : CleanupWithHandler(handler)

SpecHandler == Init /\ [][NextHandler]_vars

\* the clock of the sweep: steps shorter than CLEANUP_INTERVAL and one of an
\* entry's lifetime, followed until two sweeps after an expiry
SweepTimeSteps == {CLEANUP_INTERVAL \div 2, DEFAULT_LIFETIME}
SweepMaxTime   == ClockAtStart + DEFAULT_LIFETIME + 2 * CLEANUP_INTERVAL

\* the clock of the sweep, running on after the last call
SweepTick == Tick(SweepTimeSteps, SweepMaxTime, MaxCalls + 1)

\* the Tfib while it is alive: inserts, the clock and the sweep timer
NextSweep ==
  \/ SweepTick
  \/ Cleanup
  \/ \E prefix \in SweepPrefixes : Insert(prefix, 1, 1, 1)

\* the steady clock advances and the scheduler runs every event that is due
SpecSweep ==
  /\ Init
  /\ [][NextSweep]_vars
  /\ WF_vars(SweepTick)
  /\ WF_vars(Cleanup)

\* the Data that feed the TFIB ahead of an Interest: complete, first
\* sequence number, no TraceHint, no hop-limit tag
PathData ==
  {d \in DataPackets : /\ d.floodId # {}
                       /\ d.newFaceSeq = {1}
                       /\ d.traceHint = {}
                       /\ d.hopLimitTag = {}}

\* the forwarder on the Interest path: mobility Data and face events first,
\* then Interests that miss the content store
NextInterest ==
  \/ Tick(TfibTimeSteps, TfibMaxTime, MaxCalls)
  \/ Cleanup
  \/ \E face \in Faces : FaceState(face)
  \/ \E face \in Faces : FaceClose(face)
  \/ \E data \in PathData, ingress \in Faces :
       HandleOptoFloodData(data, ingress, {}, MaxPackets)
  \/ \E interest \in Interests, ingress \in Faces, fibHasNextHops \in BOOLEAN :
       OnContentStoreMiss(interest, ingress, fibHasNextHops)

SpecInterest == Init /\ [][NextInterest]_vars

\* the forwarder with egress faces that may refuse a copy: mobility Data,
\* each with the faces on which onOutgoingData returns false, and face events
NextSend ==
  \/ Tick(TfibTimeSteps, TfibMaxTime, MaxPackets)
  \/ Cleanup
  \/ \E face \in Faces : FaceState(face)
  \/ \E data \in PathData, ingress \in Faces, sendFails \in SUBSET Faces :
       HandleOptoFloodData(data, ingress, sendFails, MaxPackets)

SpecSend == Init /\ [][NextSend]_vars

\* the Data of a burst of mobility events: one flood id each, no TraceHint,
\* no hop-limit tag
BurstData(floodId) ==
  [name |-> <<1, 1>>, floodId |-> {floodId}, newFaceSeq |-> {1},
   traceHint |-> {}, hopLimitTag |-> {}]

\* the clock around the end of the first rate window
RateTimeSteps == {OPTOFLOOD_RATE_WINDOW, OPTOFLOOD_RATE_WINDOW + 1}
RateMaxTime   == ClockAtStart + OPTOFLOOD_RATE_WINDOW + 1

\* the faces the burst arrives on
BurstFaces == {f \in Faces : f <= 2}

\* the forwarder under a burst of floods with pairwise distinct flood ids
NextRate ==
  \/ Tick(RateTimeSteps, RateMaxTime, MaxBurst)
  \/ Cleanup
  \/ \E ingress \in BurstFaces :
       HandleOptoFloodData(BurstData(nOps + 1), ingress, {}, MaxBurst)

SpecRate == Init /\ [][NextRate]_vars

\* the Data of the mobility events of one producer under one prefix: first
\* copies and stragglers of each flood
StragglerData == {d \in PathData : d.name = <<1, 1>>}

\* the forwarder receiving the Data of successive mobility events of one
\* prefix, in any order and at any distance in time
NextStraggler ==
  \/ Tick(TimeSteps, MaxTime, MaxArrivals)
  \/ Cleanup
  \/ \E data \in StragglerData, ingress \in BurstFaces :
       HandleOptoFloodData(data, ingress, {}, MaxArrivals)

SpecStraggler == Init /\ [][NextStraggler]_vars

\* the size the dedup cache is specified not to exceed; the forwarder has
\* no such constant
MAX_FLOOD_IDS == 4096

\* the forwarder after a burst of `n` Data, n > RATE_LIMIT, that all
\* arrived on face 1 at the instant ClockAtStart with the flood ids 1..n:
\* every id is remembered, the last Data owns the TFIB entry, the first
\* RATE_LIMIT of them were flooded and the others rate limited
AfterBurst(n) ==
  /\ now = ClockAtStart
  /\ m_entries = [p \in {getPrefix(BurstData(n).name)} |->
                    NewEntry(1, 1, n, ClockAtStart)]
  /\ nextCleanup = ClockAtStart + CLEANUP_INTERVAL
  /\ m_floodIdCache = [id \in 1..n |-> ClockAtStart]
  /\ m_floodPacketCount = OPTOFLOOD_RATE_LIMIT_PER_SECOND
  /\ m_floodRateWindowStart = ClockAtStart
  /\ m_faceTable = [f \in Faces |-> "UP"]
  /\ emitted = {}
  /\ signals = <<AfterInsert(getPrefix(BurstData(n).name), 1, 1)>>
  /\ last = [op |-> "data", at |-> ClockAtStart, data |-> BurstData(n),
             ingress |-> 1, outcome |-> "rateLimited",
             before |-> {NewEntry(1, 1, n - 1, ClockAtStart)},
             sendFails |-> {}, calls |-> <<>>, floodedCount |-> 0]
  /\ firstArrival = [id \in 1..n |-> ClockAtStart]
  /\ arrivedOn = [p \in {getPrefix(BurstData(n).name)} |->
                    [face |-> 1, at |-> ClockAtStart]]
  /\ nOps = n
  /\ m_pit = {}
  /\ outInterests = {}
  /\ nCopies = OPTOFLOOD_RATE_LIMIT_PER_SECOND * (NumFaces - 1)
  /\ m_cleanupEvent = "scheduled"
  /\ AppInit

\* the flood that the rate limiter refused at the end of the shortest burst
\* that it refuses anything of
RetryFlood == OPTOFLOOD_RATE_LIMIT_PER_SECOND + 1

\* the Data that arrive after that burst: further copies of the refused
\* flood and the copies of one more flood, with any hop-limit tag
RetryData ==
  {[name |-> BurstData(id).name, floodId |-> {id}, newFaceSeq |-> {1},
    traceHint |-> {}, hopLimitTag |-> h] :
     id \in {RetryFlood, RetryFlood + 1}, h \in {{}} \cup {{t} : t \in HopTags}}

\* the clock after the burst: past the rate window, past FLOOD_ID_TTL
RetryTimeSteps == {OPTOFLOOD_RATE_WINDOW + 1, FLOOD_ID_TTL}
RetryMaxTime   == ClockAtStart + FLOOD_ID_TTL + OPTOFLOOD_RATE_WINDOW + 1

\* the forwarder after the burst: suppressed floods arrive again
NextRetry ==
  \/ Tick(RetryTimeSteps, RetryMaxTime, RetryFlood + MaxArrivals)
  \/ Cleanup
  \/ \E data \in RetryData, ingress \in BurstFaces :
       HandleOptoFloodData(data, ingress, {}, RetryFlood + MaxArrivals)

SpecRetry == AfterBurst(RetryFlood) /\ [][NextRetry]_vars

\* how many flood ids the burst has left in the cache when it is taken up
CacheFill == MAX_FLOOD_IDS - 3

\* the forwarder with a dedup cache that a burst has nearly filled, under
\* more Data of that burst
NextCache ==
  \/ Tick(RateTimeSteps, RateMaxTime, MAX_FLOOD_IDS + 1)
  \/ Cleanup
  \/ \E ingress \in Faces :
       HandleOptoFloodData(BurstData(nOps + 1), ingress, {}, MAX_FLOOD_IDS + 1)

SpecCache == AfterBurst(CacheFill) /\ [][NextCache]_vars

\* ------------------------------------------------------------- properties
\* what the last handleOptoFloodData run was given
LastIsData     == last.op = "data"
LastPrefix     == getPrefix(last.data.name)
LastFloodId    == The(last.data.floodId)
LastNewFaceSeq == The(last.data.newFaceSeq)
\* the run went past the required-field test and the duplicate test
LastAccepted   == LastIsData /\ last.outcome \notin {"missingField", "duplicate"}

\* C1: a Data whose flood id arrived before, no longer than FLOOD_ID_TTL ago,
\* is dropped whatever its ingress face and NewFaceSeq: the TFIB (face, seq,
\* flood id, expiry), the dedup cache and the rate counter stay as they are
\* and nothing is emitted; the first arrival of a flood id is the one that
\* writes the TFIB entry.
C1_DuplicateFloodDropped ==
  [][(/\ nOps' = nOps + 1
      /\ last'.op = "data"
      /\ last'.data.floodId # {}
      /\ last'.data.newFaceSeq # {})
     => LET floodId == The(last'.data.floodId)
            prefix  == getPrefix(last'.data.name)
        IN  IF floodId \in DOMAIN firstArrival
            THEN now - firstArrival[floodId] <= FLOOD_ID_TTL
                 => /\ last'.outcome = "duplicate"
                    /\ UNCHANGED <<m_entries, floodVars>>
                    /\ emitted' = {}
                    /\ signals' = <<>>
            ELSE /\ last'.outcome \notin {"missingField", "duplicate"}
                 /\ prefix \in DOMAIN m_entries'
                 /\ m_entries'[prefix].floodId = floodId
                 /\ m_entries'[prefix].face = last'.ingress
                 /\ floodId \in DOMAIN m_floodIdCache'
    ]_vars

\* C1 witness: a duplicate with a higher NewFaceSeq, on another face than
\* the entry's, has been dropped
C1_Witness ==
  /\ LastIsData
  /\ last.outcome = "duplicate"
  /\ LastPrefix \in DOMAIN m_entries
  /\ m_entries[LastPrefix].floodId = LastFloodId
  /\ m_entries[LastPrefix].newFaceSeq < LastNewFaceSeq
  /\ m_entries[LastPrefix].face # last.ingress
  /\ last.at > firstArrival[LastFloodId]

\* what the last Tfib::insert call was given and found
LastIsInsert == last.op = "insert"
LastOld      == The(last.before)

\* C2: across every mutation of the table, the newFaceSeq stored for a
\* prefix does not decrease while the entry keeps its flood id; an insert
\* under the entry's flood id leaves the larger of the stored and the
\* inserted sequence number.
C2_SeqMonotoneWithinFlood ==
  [][/\ \A p \in DOMAIN m_entries \cap DOMAIN m_entries' :
          m_entries'[p].floodId = m_entries[p].floodId
          => m_entries'[p].newFaceSeq >= m_entries[p].newFaceSeq
     /\ (last'.op = "insert" /\ nOps' = nOps + 1
         /\ last'.prefix \in DOMAIN m_entries
         /\ last'.floodId = m_entries[last'.prefix].floodId)
        => m_entries'[last'.prefix].newFaceSeq =
             IF last'.newFaceSeq > m_entries[last'.prefix].newFaceSeq
             THEN last'.newFaceSeq
             ELSE m_entries[last'.prefix].newFaceSeq
    ]_vars

\* C2 witness: a lower sequence number was inserted under the flood id of
\* the entry, and the entry kept its higher one
C2_Witness ==
  /\ LastIsInsert
  /\ last.before # {}
  /\ LastOld.floodId = last.floodId
  /\ last.newFaceSeq < LastOld.newFaceSeq
  /\ m_entries[last.prefix].newFaceSeq = LastOld.newFaceSeq

\* C3: an insert on a prefix that has an entry replaces it (face, seq, flood
\* id of the call) and emits afterInsert once iff seq > existing.seq or
\* floodId # existing.floodId; otherwise only the expiry changes and no
\* signal is emitted.
C3_InsertOnExisting ==
  (LastIsInsert /\ last.before # {})
  => IF last.newFaceSeq > LastOld.newFaceSeq \/ last.floodId # LastOld.floodId
     THEN /\ m_entries[last.prefix] =
               [face |-> last.face, newFaceSeq |-> last.newFaceSeq,
                floodId |-> last.floodId, expiry |-> last.at + DEFAULT_LIFETIME]
          /\ signals = <<[sig |-> "afterInsert", prefix |-> last.prefix,
                          face |-> last.face, seq |-> last.newFaceSeq]>>
     ELSE /\ m_entries[last.prefix] =
               [face |-> LastOld.face, newFaceSeq |-> LastOld.newFaceSeq,
                floodId |-> LastOld.floodId, expiry |-> last.at + DEFAULT_LIFETIME]
          /\ signals = <<>>

\* C3 witness: an insert with the flood id and the sequence number of the
\* entry, through another face and later, has only moved the expiry
C3_Witness ==
  /\ LastIsInsert
  /\ last.before # {}
  /\ last.floodId = LastOld.floodId
  /\ last.newFaceSeq = LastOld.newFaceSeq
  /\ last.face # LastOld.face
  /\ LastOld.expiry < last.at + DEFAULT_LIFETIME
  /\ m_entries[last.prefix].face = LastOld.face
  /\ signals = <<>>

\* C4: when a Data that reaches the TFIB update carries another flood id
\* than the entry of its prefix, the entry afterwards is that Data's: its
\* ingress face, its NewFaceSeq (higher or lower than the old one), its
\* flood id.
C4_LaterFloodWins ==
  (LastAccepted /\ last.before # {} /\ LastOld.floodId # LastFloodId)
  => /\ LastPrefix \in DOMAIN m_entries
     /\ m_entries[LastPrefix] =
          [face |-> last.ingress, newFaceSeq |-> LastNewFaceSeq,
           floodId |-> LastFloodId, expiry |-> last.at + DEFAULT_LIFETIME]

\* C4 witness: the Data of a second flood, with a lower NewFaceSeq and on
\* another face, has taken over the entry of the first flood
C4_Witness ==
  /\ LastAccepted
  /\ last.before # {}
  /\ LastOld.floodId # LastFloodId
  /\ LastNewFaceSeq < LastOld.newFaceSeq
  /\ LastOld.face # last.ingress
  /\ m_entries[LastPrefix].floodId = LastFloodId
  /\ m_entries[LastPrefix].newFaceSeq = LastNewFaceSeq

\* name `prefix` is a prefix, proper or not, of `name`
IsPrefixOf(prefix, name) ==
  /\ Len(prefix) <= Len(name)
  /\ \A i \in 1..Len(prefix) : prefix[i] = name[i]

\* C5: a lookup at a time later than an entry's expiry does not return that
\* entry, be it findExactMatch or findLongestPrefixMatch, swept or not.
C5_ExpiredInvisible ==
  last.op = "lookup"
  => /\ \A e \in last.entry : ~(last.at > e.expiry)
     /\ \A p \in last.found : ~(last.at > m_entries[p].expiry)

\* C5 witness: a lookup for the prefix of an entry that is past its expiry
\* and still in the table has returned nothing
C5_Witness ==
  /\ last.op = "lookup"
  /\ last.name \in DOMAIN m_entries
  /\ last.at > m_entries[last.name].expiry
  /\ last.found = {}

\* the non-expired entries whose prefix is a prefix of `name`
LiveMatches(entries, name, t) ==
  {p \in DOMAIN entries : IsPrefixOf(p, name) /\ t < entries[p].expiry}

\* C6: findLongestPrefixMatch(N) returns the longest of the non-expired
\* entries whose prefix is a prefix of N (N itself first, the root prefix
\* last), and nothing only if there is none.
C6_LongestLivePrefix ==
  (last.op = "lookup" /\ ~last.exact)
  => LET live == LiveMatches(m_entries, last.name, last.at)
     IN  IF live = {} THEN last.found = {}
         ELSE /\ last.found \subseteq live
              /\ Cardinality(last.found) = 1
              /\ \A p \in last.found : \A q \in live : Len(q) <= Len(p)

\* C6 witness: an expired entry at a longer prefix of the name is still in
\* the table and the lookup has returned the entry of the root prefix
C6_Witness ==
  /\ last.op = "lookup"
  /\ ~last.exact
  /\ last.found = {<<>>}
  /\ \E p \in DOMAIN m_entries :
       /\ Len(p) > 0
       /\ IsPrefixOf(p, last.name)
       /\ last.at >= m_entries[p].expiry

\* C7: no lookup returns an entry whose face has been torn down: every
\* entry a lookup can return references a face of the face table.
C7_NoLookupOfClosedFace ==
  \A name \in Names :
    \A p \in findLongestPrefixMatch(m_entries, name, now) :
      m_entries[p].face \in DOMAIN m_faceTable

\* C8: a Data arriving with hop-limit tag 0 yields no copy on any face; if
\* it carries the required fields and is no duplicate, its flood id is
\* remembered and the entry of its prefix is written with a fresh expiry.
C8_HopZeroNoCopies ==
  (LastIsData /\ last.data.hopLimitTag = {0})
  => /\ emitted = {}
     /\ LastAccepted
        => /\ LastFloodId \in DOMAIN m_floodIdCache
           /\ m_floodIdCache[LastFloodId] = last.at
           /\ LastPrefix \in DOMAIN m_entries
           /\ m_entries[LastPrefix].floodId = LastFloodId
           /\ m_entries[LastPrefix].expiry = last.at + DEFAULT_LIFETIME

\* C8 witness: a new flood with hop-limit tag 0 arrived while other faces
\* were UP, and its entry is in the TFIB
C8_Witness ==
  /\ LastAccepted
  /\ last.data.hopLimitTag = {0}
  /\ egressFaces(m_faceTable, last.ingress) # {}
  /\ emitted = {}
  /\ m_entries[LastPrefix].face = last.ingress

\* the copies a flood run hands to onOutgoingData with hop limit h
CopiesWith(h) ==
  {[face |-> f, hopLimit |-> h] : f \in egressFaces(m_faceTable, last.ingress)}

\* C9 as claimed: a Data arriving with hop limit 1 has its entry inserted
\* and yields no copy.
C9_HopOneNoCopies ==
  (LastAccepted /\ last.data.hopLimitTag = {1})
  => /\ LastPrefix \in DOMAIN m_entries
     /\ emitted = {}

\* C9 amended: a Data arriving with hop limit 1 that is no duplicate has its
\* entry inserted and, unless rate limited, yields one copy with hop-limit
\* tag 0 for every UP face other than the ingress face.
C9_HopOneCopiesTaggedZero ==
  (LastAccepted /\ last.data.hopLimitTag = {1})
  => /\ LastPrefix \in DOMAIN m_entries
     /\ m_entries[LastPrefix].expiry = last.at + DEFAULT_LIFETIME
     /\ last.outcome # "rateLimited" => emitted = CopiesWith(0)

\* C9 witness: copies tagged 0 have been emitted for a Data with hop limit 1
C9_Witness ==
  /\ LastAccepted
  /\ last.data.hopLimitTag = {1}
  /\ emitted # {}
  /\ \A c \in emitted : c.hopLimit = 0

\* the hop limit a Data arrives with: its tag, or the default without one
ArrivalHopLimit(data) ==
  IF data.hopLimitTag = {} THEN OPTOFLOOD_DEFAULT_HOP_LIMIT
  ELSE The(data.hopLimitTag)

\* C10 as claimed: every copy carries the arrival hop limit minus one, for
\* a tagged Data and for an untagged one alike.
C10_CopiesCarryHopMinusOne ==
  LastIsData
  => \A c \in emitted : c.hopLimit = ArrivalHopLimit(last.data) - 1

\* C10 amended: every copy of a Data that carries a hop-limit tag h carries
\* h - 1; every copy of a Data without a tag carries DEFAULT_HOP_LIMIT = 3,
\* not decremented.
C10_CopiesHopLimit ==
  LastIsData
  => \A c \in emitted :
       c.hopLimit = IF last.data.hopLimitTag = {}
                    THEN OPTOFLOOD_DEFAULT_HOP_LIMIT
                    ELSE The(last.data.hopLimitTag) - 1

\* C10 witness: an untagged Data has been flooded
C10_Witness ==
  /\ LastIsData
  /\ last.data.hopLimitTag = {}
  /\ emitted # {}
  /\ \A c \in emitted : c.hopLimit = OPTOFLOOD_DEFAULT_HOP_LIMIT

\* the faces that the copies of the last run went to
CopyFaces(copies) == {c.face : c \in copies}

\* C11: no run of the Data flood or of the Interest flood hands a copy to
\* the face its packet arrived on, whatever the face table holds; a Data
\* whose flood id is in the dedup cache yields no copy at all, so the face a
\* flood id arrived on receives nothing for it on a later arrival either.
C11_NoCopyToIngress ==
  /\ LastIsData => last.ingress \notin CopyFaces(emitted)
  /\ (LastIsData /\ last.outcome = "duplicate") => emitted = {}
  /\ (last.op = "interest" /\ last.path = "flood")
     => last.ingress \notin CopyFaces(outInterests)

\* C11 witness: an Interest has been flooded to every other face while its
\* ingress face was UP, after a Data flood had written the TFIB
C11_Witness ==
  /\ last.op = "interest"
  /\ last.path = "flood"
  /\ m_faceTable[last.ingress] = "UP"
  /\ CopyFaces(outInterests) = DOMAIN m_faceTable \ {last.ingress}
  /\ outInterests # {}
  /\ DOMAIN m_entries # {}

\* C12: a Data without TraceHint that carries the required fields, whose
\* flood id is not in the dedup cache, that finds the rate counter below the
\* limit and has no hop-limit tag 0, yields one copy for each face of the
\* face table that is UP and is not the ingress face and none for a DOWN
\* face; on the first arrival of its flood id it leaves the TFIB entry of
\* its prefix pointing at the ingress face.
C12_OneCopyPerUpFace ==
  [][(/\ nOps' = nOps + 1
      /\ last'.op = "data"
      /\ last'.data.floodId # {}
      /\ last'.data.newFaceSeq # {}
      /\ last'.data.traceHint = {}
      /\ last'.data.hopLimitTag # {0}
      /\ The(last'.data.floodId) \notin DOMAIN m_floodIdCache
      /\ m_floodPacketCount < OPTOFLOOD_RATE_LIMIT_PER_SECOND)
     => LET up == {f \in DOMAIN m_faceTable :
                     m_faceTable[f] = "UP" /\ f # last'.ingress}
        IN  /\ CopyFaces(emitted') = up
            /\ Cardinality(emitted') = Cardinality(up)
            /\ The(last'.data.floodId) \notin DOMAIN firstArrival
               => m_entries'[getPrefix(last'.data.name)].face = last'.ingress
    ]_vars

\* C12 witness: with one face DOWN, a Data without TraceHint was copied to
\* the one UP face other than its ingress face, and to no other
C12_Witness ==
  /\ LastIsData
  /\ last.outcome = "flooded"
  /\ last.data.traceHint = {}
  /\ \E f \in DOMAIN m_faceTable : m_faceTable[f] = "DOWN"
  /\ Cardinality(emitted) = 1
  /\ m_entries[LastPrefix].face = last.ingress

\* C13 as claimed: the copies emitted within one rate window never number
\* more than RATE_LIMIT, whatever the number of faces and of flood ids.
C13_CopiesWithinRateLimit ==
  nCopies <= OPTOFLOOD_RATE_LIMIT_PER_SECOND

\* C13 amended: between two resets of the rate window the forwarder floods
\* at most RATE_LIMIT Data, one copy each per UP face other than the ingress
\* face: the copies number at most RATE_LIMIT times the faces other than
\* the ingress face.
C13_FloodsWithinRateLimit ==
  /\ m_floodPacketCount <= OPTOFLOOD_RATE_LIMIT_PER_SECOND
  /\ nCopies <= OPTOFLOOD_RATE_LIMIT_PER_SECOND * (NumFaces - 1)

\* C13 witness: more than RATE_LIMIT copies went out in the window and the
\* Data that came next was rate limited
C13_Witness ==
  /\ LastIsData
  /\ last.outcome = "rateLimited"
  /\ nCopies > OPTOFLOOD_RATE_LIMIT_PER_SECOND
  /\ nCopies = OPTOFLOOD_RATE_LIMIT_PER_SECOND * (NumFaces - 1)

\* C14: while all arrivals lie within RATE_WINDOW of the first one, each of
\* the first RATE_LIMIT Data with pairwise distinct flood ids yields a copy
\* for every UP face other than its ingress face, and every later one
\* yields none, has its TFIB entry written and its flood id remembered.
C14_FirstHundredFlooded ==
  (/\ LastAccepted
   /\ \A id \in DOMAIN firstArrival :
        last.at - firstArrival[id] <= OPTOFLOOD_RATE_WINDOW)
  => IF Cardinality(DOMAIN firstArrival) <= OPTOFLOOD_RATE_LIMIT_PER_SECOND
     THEN emitted = CopiesWith(OPTOFLOOD_DEFAULT_HOP_LIMIT)
     ELSE /\ emitted = {}
          /\ LastPrefix \in DOMAIN m_entries
          /\ m_entries[LastPrefix] =
               [face |-> last.ingress, newFaceSeq |-> LastNewFaceSeq,
                floodId |-> LastFloodId, expiry |-> last.at + DEFAULT_LIFETIME]
          /\ LastFloodId \in DOMAIN m_floodIdCache
          /\ m_floodIdCache[LastFloodId] = last.at

\* C14 witness: the Data after the first RATE_LIMIT ones arrived at the very
\* end of the window on another face than the entry's, was given no copy
\* and took over the TFIB entry
C14_Witness ==
  /\ LastAccepted
  /\ Cardinality(DOMAIN firstArrival) = OPTOFLOOD_RATE_LIMIT_PER_SECOND + 1
  /\ last.at - firstArrival[1] = OPTOFLOOD_RATE_WINDOW
  /\ emitted = {}
  /\ last.before # {}
  /\ LastOld.face # last.ingress
  /\ m_entries[LastPrefix].face = last.ingress
  /\ LastFloodId \in DOMAIN m_floodIdCache

\* C15: a Data for which getFloodId or getNewFaceSeq returns nothing (the
\* block is absent or its value does not decode) is dropped: the TFIB, the
\* dedup cache, the rate counter and its window stay as they are, no signal
\* and no copy is emitted.
C15_MissingFieldDropped ==
  [][(/\ nOps' = nOps + 1
      /\ last'.op = "data"
      /\ (last'.data.floodId = {} \/ last'.data.newFaceSeq = {}))
     => /\ last'.outcome = "missingField"
        /\ UNCHANGED <<m_entries, floodVars>>
        /\ emitted' = {}
        /\ signals' = <<>>
    ]_vars

\* C15 witness: a Data with a flood id that is not in the cache, without
\* NewFaceSeq and with hop budget left was dropped while other faces were UP
C15_Witness ==
  /\ LastIsData
  /\ last.outcome = "missingField"
  /\ last.data.floodId # {}
  /\ LastFloodId \notin DOMAIN m_floodIdCache
  /\ last.data.newFaceSeq = {}
  /\ last.data.hopLimitTag = {OPTOFLOOD_DEFAULT_HOP_LIMIT}
  /\ egressFaces(m_faceTable, last.ingress) # {}
  /\ emitted = {}
  /\ LastPrefix \notin DOMAIN m_entries

\* C16: a Data whose flood id first arrived more than FLOOD_ID_TTL ago is
\* processed as a new flood, whether or not another flood arrived in
\* between, and the dedup cache then holds no id older than FLOOD_ID_TTL.
C16_StaleFloodIdIsNew ==
  [][(/\ nOps' = nOps + 1
      /\ last'.op = "data"
      /\ last'.data.floodId # {}
      /\ last'.data.newFaceSeq # {}
      /\ The(last'.data.floodId) \in DOMAIN firstArrival
      /\ now - firstArrival[The(last'.data.floodId)] > FLOOD_ID_TTL)
     => /\ last'.outcome \notin {"missingField", "duplicate"}
        /\ getPrefix(last'.data.name) \in DOMAIN m_entries'
        /\ m_entries'[getPrefix(last'.data.name)].expiry = now + DEFAULT_LIFETIME
        /\ \A id \in DOMAIN m_floodIdCache' :
             now - m_floodIdCache'[id] <= FLOOD_ID_TTL
    ]_vars

\* the state of SpecRate that SpecCache starts from, with a shorter burst
BurstReached == AfterBurst(MaxBurst - 1)

\* C17: after any sequence of arrivals the dedup cache holds at most
\* MAX_FLOOD_IDS flood ids.
C17_CacheWithinCeiling ==
  Cardinality(DOMAIN m_floodIdCache) <= MAX_FLOOD_IDS

\* C18: Tfib::erase on a prefix that has an entry emits beforeRemove(prefix)
\* once, while the entry is still in the table, removes that entry and
\* leaves every other entry as it was; on a prefix without entry it emits
\* nothing and changes nothing.
C18_EraseRemovesOne ==
  [][(last'.op = "erase" /\ nOps' = nOps + 1)
     => LET prefix == last'.prefix
        IN  IF prefix \in DOMAIN m_entries
            THEN /\ signals' = <<[sig |-> "beforeRemove", prefix |-> prefix,
                                  inTable |-> TRUE]>>
                 /\ DOMAIN m_entries' = DOMAIN m_entries \ {prefix}
                 /\ \A q \in DOMAIN m_entries' : m_entries'[q] = m_entries[q]
            ELSE /\ signals' = <<>>
                 /\ m_entries' = m_entries
    ]_vars

\* C18 witness: an entry has been erased, with its signal, from a table
\* that holds another entry
C18_Witness ==
  /\ last.op = "erase"
  /\ last.before # {}
  /\ last.prefix \notin DOMAIN m_entries
  /\ DOMAIN m_entries # {}
  /\ Len(signals) = 1

\* C19: a run of Tfib::cleanup removes the entries that are expired when it
\* runs and emits beforeRemove once for each; the other entries stay, with
\* face, seq, flood id and expiry as they were, and get no signal.
C19_SweepRemovesExpired ==
  [][last'.op = "cleanup"
     => LET expired == {p \in DOMAIN m_entries : now >= m_entries[p].expiry}
        IN  /\ DOMAIN m_entries' = DOMAIN m_entries \ expired
            /\ \A q \in DOMAIN m_entries' : m_entries'[q] = m_entries[q]
            /\ Len(signals') = Cardinality(expired)
            /\ \A p \in expired :
                 \E i \in DOMAIN signals' :
                   signals'[i] = [sig |-> "beforeRemove", prefix |-> p,
                                  inTable |-> TRUE]
    ]_vars

\* C19 witness: a sweep has removed two expired entries and left a live one
C19_Witness ==
  /\ last.op = "cleanup"
  /\ Len(signals) = 2
  /\ \E p \in DOMAIN m_entries : now < m_entries[p].expiry

\* C20: when the TFIB lookup for the name of an Interest that missed the
\* content store yields a non-expired entry, the in-record of the ingress
\* face is written and the Interest goes to the entry's face and to no
\* other, with or without next hops in the FIB; it is neither flooded nor
\* handed to the strategy.
C20_TfibHitForwardsToEntryFace ==
  (last.op = "interest" /\ last.found # {})
  => /\ last.path = "tfib"
     /\ [name |-> last.interest.name, face |-> last.ingress] \in m_pit
     /\ outInterests = {[face |-> e.face, hopLimit |-> last.interest.hopLimit] :
                          e \in last.entry}

\* what the last onContentStoreMissWithOptoFlood run was given
LastIsInterest == last.op = "interest"
LastInRecord   == [name |-> last.interest.name, face |-> last.ingress]

C22_InRecordBeforeFloodCopies ==
  (LastIsInterest /\ last.path = "flood" /\ outInterests # {})
  => LastInRecord \in m_pit


\* the routers, of MaxChain in a row, that flood an Interest arriving at the
\* first of them with this hop limit, each passing on what
\* handleInterestFlooding writes into its copies
RECURSIVE floodedAlong(_, _)
floodedAlong(hopLimit, routers) ==
  LET hop == interestHopLimit(hopLimit)
  IN  IF routers > 0 /\ hop.flood
      THEN 1 + floodedAlong({hop.hopLimit}, routers - 1)
      ELSE 0

hopsForwarded(hopLimit) == floodedAlong(hopLimit, MaxChain)

\* C23: a flooded Interest arriving with hop limit 0 yields no copies; with
\* hop limit h >= 1 every UP face other than the ingress face gets a copy
\* carrying h - 1; without a hop limit the copies carry DEFAULT_HOP_LIMIT
\* (3); so the hop limit falls strictly from router to router and a flood
\* started with hop limit h is forwarded by at most h routers in a row.
C23_InterestHopLimitDecreases ==
  (LastIsInterest /\ last.path = "flood")
  => LET h == last.interest.hopLimit
     IN  /\ h = {0} => outInterests = {}
         /\ h # {0} => CopyFaces(outInterests) = egressFaces(m_faceTable, last.ingress)
         /\ \A c \in outInterests :
              c.hopLimit = IF h = {} THEN {OPTOFLOOD_DEFAULT_HOP_LIMIT}
                           ELSE {The(h) - 1}
         /\ h # {} => /\ \A c \in outInterests : The(c.hopLimit) < The(h)
                      /\ hopsForwarded(h) <= The(h)
         /\ h = {} => hopsForwarded(h) <= OPTOFLOOD_DEFAULT_HOP_LIMIT + 1

C23_Witness ==
  /\ LastIsInterest
  /\ last.path = "flood"
  /\ last.interest.hopLimit = {2}
  /\ Cardinality(outInterests) = 2
  /\ \A c \in outInterests : c.hopLimit = {1}
  /\ hopsForwarded(last.interest.hopLimit) = 2


\* C24: a flood that arrives with a TraceHint and is flooded selects a face
\* whenever some UP face other than the ingress face exists: the TraceHint
\* never leaves the flood without a face, every UP face other than the
\* ingress face is selected.
C24_TraceHintKeepsCandidates ==
  (LastIsData /\ last.data.traceHint # {} /\ last.outcome = "flooded")
  => /\ egressFaces(m_faceTable, last.ingress) # {} => emitted # {}
     /\ CopyFaces(emitted) = egressFaces(m_faceTable, last.ingress)

\* C24 witness: a Data whose TraceHint names only its ingress face was
\* flooded to the two other faces
C24_Witness ==
  /\ LastIsData
  /\ last.outcome = "flooded"
  /\ last.data.traceHint = {<<last.ingress>>}
  /\ Cardinality(emitted) = 2


\* C26: when onOutgoingData fails for a face of the flood, no second call is
\* made for that face, every other selected face is still called once, and
\* the TFIB entry and the dedup record written for the arrival stay.
C26_FailedCopyAbandoned ==
  (LastIsData /\ last.outcome = "flooded")
  => LET selected == egressFaces(m_faceTable, last.ingress)
     IN  /\ \A f \in selected :
              Cardinality({i \in DOMAIN last.calls : last.calls[i] = f}) = 1
         /\ Len(last.calls) = Cardinality(selected)
         /\ CopyFaces(emitted) = selected
         /\ last.floodedCount = Cardinality(selected \ last.sendFails)
         /\ LastFloodId \in DOMAIN m_floodIdCache
         /\ LastPrefix \in DOMAIN m_entries
         /\ last.before = {} =>
              m_entries[LastPrefix] = NewEntry(last.ingress, LastNewFaceSeq,
                                               LastFloodId, last.at)

\* C26 witness: the send to the first of two selected faces failed and the
\* second face still got its copy
C26_Witness ==
  /\ LastIsData
  /\ last.outcome = "flooded"
  /\ Len(last.calls) = 2
  /\ last.sendFails = {last.calls[1]}
  /\ last.floodedCount = 1
  /\ last.before = {}
  /\ LastPrefix \in DOMAIN m_entries


\* C27: an Interest that misses the content store is never sent through a
\* TFIB entry to a face that is missing or not UP: such an entry yields no
\* onOutgoingInterest call.
C27_NoTfibForwardToDeadFace ==
  (LastIsInterest /\ last.found # {} /\ outInterests # {})
  => \A e \in last.entry :
       /\ e.face \in DOMAIN m_faceTable
       /\ m_faceTable[e.face] = "UP"


\* C28: once the owner of the Tfib has shut down and the Tfib is destroyed,
\* the table holds no entry and the sweep is cancelled: no cleanup runs from
\* then on, whatever the table held and whether a sweep was due or not.
C28_NoSweepAfterShutdown ==
  [][(last'.op = "destroy" \/ m_cleanupEvent = "cancelled")
     => /\ m_entries' = EmptyMap
        /\ m_cleanupEvent' = "cancelled"
        /\ last'.op # "cleanup"]_vars

\* C28 witness: a Tfib that held an expired entry, with a sweep due, has been
\* destroyed
C28_Witness ==
  /\ last.op = "destroy"
  /\ m_cleanupEvent = "cancelled"
  /\ now >= nextCleanup
  /\ \E p \in DOMAIN last.before : isExpired(last.before[p], now)
  /\ m_entries = EmptyMap


\* C25: for every metadata tuple (MobilityFlag present or absent, FloodId,
\* NewFaceSeq, TraceHint absent or present with a length of 0 to 255 bytes)
\* the readers give back exactly the tuple the make...Block functions were
\* given, presence and absence of the optional fields included.
C25_CodecRoundTrip ==
  codecOut # {}
  => LET in == The(codecIn)
     IN  The(codecOut) = [mobilityFlag |-> in.mobilityFlag,
                          floodId |-> {in.floodId},
                          newFaceSeq |-> {in.newFaceSeq},
                          traceHint |-> in.traceHint]


\* what the last expressInterest sent and found
LastIsExpress == last.op = "express"
LastFlagged ==
  last.interest.hasParams /\ last.interest.hopLimit = {DEFAULT_FLOOD_HOP_LIMIT}

\* C29: a consumer with OptoFlood enabled sends an Interest with flood
\* parameters and hop limit 3 exactly when its consecutive failures have
\* reached the flood threshold or a forced flood is still pending; a flagged
\* Interest and a received Data each leave the failure counter at 0; a
\* consumer with OptoFlood disabled never flags an Interest.
C29_FloodFlagIffThreshold ==
  /\ (LastIsExpress /\ last.enabled)
     => (LastFlagged <=> (last.failures >= last.threshold \/ last.forcePending))
  /\ (LastIsExpress /\ ~last.enabled)
     => (~last.interest.hasParams /\ last.interest.hopLimit = {})
  /\ (LastIsExpress /\ LastFlagged) => m_consecutiveFailures = 0
  /\ last.op = "onData" => m_consecutiveFailures = 0


\* what the last Data of the producer carries
LastIsPut == last.op = "put"
LastMarked ==
  /\ hasMobilityFlag(last.appMetaInfo)
  /\ getFloodId(last.appMetaInfo) # {}
  /\ getNewFaceSeq(last.appMetaInfo) # {}
  /\ getTraceHint(last.appMetaInfo) # {}

\* C30: a producer in solution mode attaches MobilityFlag, FloodId,
\* NewFaceSeq and TraceHint to the first Data it sends after a mobility event
\* and to no later Data until the next mobility event; a producer that is not
\* in solution mode attaches none of them to any Data.
C30_FirstDataAfterMoveMarked ==
  LastIsPut
  => /\ (m_isSolution /\ last.moved) => LastMarked
     /\ (m_isSolution /\ ~last.moved) => last.appMetaInfo = <<>>
     /\ ~m_isSolution => last.appMetaInfo = <<>>

\* C31: after every Tfib::insert on a prefix (create, replace or refresh) the
\* entry of the prefix expires DEFAULT_LIFETIME after that insert; nothing
\* but an insert on the prefix moves an entry's expiry; a lookup returns an
\* entry only less than DEFAULT_LIFETIME after the last insert on its prefix.
C31_ExpiryIsInsertPlusLifetime ==
  [][/\ (last'.op = "insert" /\ nOps' = nOps + 1)
        => /\ last'.prefix \in DOMAIN m_entries'
           /\ m_entries'[last'.prefix].expiry = now + DEFAULT_LIFETIME
     /\ \A p \in DOMAIN m_entries \cap DOMAIN m_entries' :
          m_entries'[p].expiry # m_entries[p].expiry
          => (last'.op = "insert" /\ nOps' = nOps + 1 /\ last'.prefix = p)
     /\ (last'.op = "lookup" /\ nOps' = nOps + 1)
        => \A p \in last'.found :
             now - (m_entries[p].expiry - DEFAULT_LIFETIME) < DEFAULT_LIFETIME
    ]_vars

\* C31 witness: an insert that only refreshed the entry (same flood id, same
\* sequence number) has moved the expiry to DEFAULT_LIFETIME after itself
C31_Witness ==
  /\ LastIsInsert
  /\ last.before # {}
  /\ ~insertReplaces(LastOld, last.newFaceSeq, last.floodId)
  /\ LastOld.expiry < last.at + DEFAULT_LIFETIME
  /\ m_entries[last.prefix].expiry = last.at + DEFAULT_LIFETIME

\* C32: every entry that has expired is eventually out of the table or live
\* again (refreshed or replaced), provided the clock is followed up to the
\* next sweep; a sweep that removes an entry emits beforeRemove for it; the
\* sweep is armed from construction on and every run re-arms it
\* CLEANUP_INTERVAL later.
C32_ExpiredEventuallySwept ==
  /\ \A p \in SweepPrefixes :
       (/\ p \in DOMAIN m_entries
        /\ isExpired(m_entries[p], now)
        /\ nextCleanup <= SweepMaxTime)
       ~> (p \notin DOMAIN m_entries \/ ~isExpired(m_entries[p], now))
  /\ [][last'.op = "cleanup"
        => /\ \A p \in DOMAIN m_entries \ DOMAIN m_entries' :
                /\ isExpired(m_entries[p], now)
                /\ \E i \in DOMAIN signals' :
                     signals'[i].sig = "beforeRemove" /\ signals'[i].prefix = p
           /\ \A p \in DOMAIN m_entries' : ~isExpired(m_entries'[p], now)
           /\ nextCleanup' = now + CLEANUP_INTERVAL
       ]_vars
  /\ [](m_cleanupEvent = "scheduled" /\ nextCleanup <= now + CLEANUP_INTERVAL)

\* C32 witness: a sweep later than the first one has removed an expired
\* entry, emitted beforeRemove for it and is armed again
C32_Witness ==
  /\ last.op = "cleanup"
  /\ now > ClockAtStart + DEFAULT_LIFETIME
  /\ \E i \in DOMAIN signals :
       signals[i].sig = "beforeRemove" /\ signals[i].prefix \notin DOMAIN m_entries
  /\ m_cleanupEvent = "scheduled"
  /\ nextCleanup = now + CLEANUP_INTERVAL

\* C33: a Data that reaches the rate check is admitted iff the counter,
\* taken as 0 when more than RATE_WINDOW has passed since windowStart, is
\* below RATE_LIMIT; an admission leaves the counter one higher, a refusal
\* leaves it; the window restarts at the time of the first check made more
\* than RATE_WINDOW after windowStart and at no other, so a Data arriving
\* after the window has elapsed is admitted whatever the counter was.
C33_RateLimiterAdmission ==
  [][(/\ nOps' = nOps + 1
      /\ last'.op = "data"
      /\ last'.outcome \in {"rateLimited", "hopLimit", "flooded"})
     => LET elapsed  == now - m_floodRateWindowStart > OPTOFLOOD_RATE_WINDOW
            count    == IF elapsed THEN 0 ELSE m_floodPacketCount
            admitted == last'.outcome # "rateLimited"
        IN  /\ admitted <=> count < OPTOFLOOD_RATE_LIMIT_PER_SECOND
            /\ m_floodPacketCount' = IF admitted THEN count + 1 ELSE count
            /\ m_floodRateWindowStart' =
                 IF elapsed THEN now ELSE m_floodRateWindowStart
            /\ elapsed => admitted
    ]_vars

\* C33 witness: after RATE_LIMIT admissions and a refusal, a Data arrived
\* more than RATE_WINDOW after windowStart and was admitted as the first of
\* a new window
C33_Witness ==
  /\ LastIsData
  /\ last.outcome = "flooded"
  /\ nOps > OPTOFLOOD_RATE_LIMIT_PER_SECOND + 1
  /\ m_floodPacketCount = 1
  /\ m_floodRateWindowStart = last.at
  /\ last.at - firstArrival[1] > OPTOFLOOD_RATE_WINDOW

\* C34: an insert on a prefix whose entry has expired and is still in the
\* table leaves the entry of the call (its face, sequence number and flood
\* id, expiring DEFAULT_LIFETIME later) and emits afterInsert once, whatever
\* the sequence number and flood id of the expired entry.
C34_InsertOverExpiredIsFresh ==
  (LastIsInsert /\ last.before # {} /\ isExpired(LastOld, last.at))
  => /\ m_entries[last.prefix] =
          [face |-> last.face, newFaceSeq |-> last.newFaceSeq,
           floodId |-> last.floodId, expiry |-> last.at + DEFAULT_LIFETIME]
     /\ signals = <<[sig |-> "afterInsert", prefix |-> last.prefix,
                     face |-> last.face, seq |-> last.newFaceSeq]>>

\* what the last sweep or erase with a connected slot removed
LastWithHandler == last.op \in {"eraseWithHandler", "cleanupWithHandler"}

\* C35: with a slot of beforeRemove that calls insert or erase on the Tfib,
\* a sweep removes only entries that are expired when they are removed,
\* neither the sweep nor erase uses an invalidated iterator, and
\* beforeRemove is emitted at most once for each entry removed.
C35_SweepSafeUnderReentrancy ==
  LastWithHandler
  => /\ last.op = "cleanupWithHandler"
        => \A i \in DOMAIN last.removed :
             isExpired(last.removed[i].entry, last.at)
     /\ ~last.invalidIterator
     /\ \A p \in SweepPrefixes :
          Cardinality({i \in DOMAIN signals :
                         signals[i].sig = "beforeRemove" /\ signals[i].prefix = p})
          <= Cardinality({i \in DOMAIN last.removed : last.removed[i].prefix = p})

\* C36: an Interest forwarded through the TFIB goes to a face on which an
\* accepted mobility Data arrived less than DEFAULT_LIFETIME earlier, the
\* Data's name without its last component being a prefix of the Interest's
\* name, and that Data is the latest accepted one of its prefix.
C36_TfibForwardFollowsFreshData ==
  (LastIsInterest /\ last.path = "tfib")
  => \A o \in outInterests :
       \E p \in DOMAIN arrivedOn :
         /\ IsPrefixOf(p, last.interest.name)
         /\ arrivedOn[p].face = o.face
         /\ last.at - arrivedOn[p].at < DEFAULT_LIFETIME

\* C37: a Data whose flood id is in the dedup cache leaves the TFIB as it
\* is, so a straggler of flood A does not take back the entry that flood B
\* has replaced; the entry of a prefix changes to a flood id that has
\* arrived before only more than FLOOD_ID_TTL after that arrival.
C37_NoFlipBackWithinTtl ==
  [][(nOps' = nOps + 1 /\ last'.op = "data" /\ last'.data.floodId # {})
     => LET A == The(last'.data.floodId)
            p == getPrefix(last'.data.name)
        IN  /\ A \in DOMAIN m_floodIdCache => m_entries' = m_entries
            /\ (/\ p \in DOMAIN m_entries
                /\ m_entries[p].floodId # A
                /\ m_entries'[p].floodId = A
                /\ A \in DOMAIN firstArrival)
               => now - firstArrival[A] > FLOOD_ID_TTL
    ]_vars

\* C37 witness: flood A installed the entry, flood B replaced it through
\* another face, and a straggler of A that came after B within FLOOD_ID_TTL
\* was dropped: the entry is still B's
C37_Witness ==
  /\ LastIsData
  /\ last.outcome = "duplicate"
  /\ LastPrefix \in DOMAIN m_entries
  /\ m_entries[LastPrefix].floodId # LastFloodId
  /\ m_entries[LastPrefix].floodId \in DOMAIN firstArrival
  /\ firstArrival[LastFloodId] < firstArrival[m_entries[LastPrefix].floodId]
  /\ last.at - firstArrival[LastFloodId] <= FLOOD_ID_TTL
  /\ m_entries[LastPrefix].face # last.ingress

\* C38: a Data stopped by the rate limiter or by hop limit 0 has its flood
\* id in the dedup cache all the same, and every Data whose flood id first
\* arrived at most FLOOD_ID_TTL ago is dropped as a duplicate without a
\* copy, whatever its hop limit and the state of the rate window.
C38_OneAttemptPerFloodId ==
  [][(nOps' = nOps + 1 /\ last'.op = "data" /\ ~missingRequiredField(last'.data))
     => LET A == The(last'.data.floodId)
        IN  /\ last'.outcome \in {"rateLimited", "hopLimit"}
               => (A \in DOMAIN m_floodIdCache' /\ m_floodIdCache'[A] = now)
            /\ (A \in DOMAIN firstArrival /\ now - firstArrival[A] <= FLOOD_ID_TTL)
               => /\ last'.outcome = "duplicate"
                  /\ emitted' = {}
                  /\ UNCHANGED <<m_entries, floodVars>>
    ]_vars

\* C38 witness: the flood that the rate limiter refused arrives again with
\* the default hop limit after the rate window has restarted and has room,
\* and is dropped as a duplicate
C38_Witness ==
  /\ LastIsData
  /\ last.outcome = "duplicate"
  /\ LastFloodId = RetryFlood
  /\ last.data.hopLimitTag = {OPTOFLOOD_DEFAULT_HOP_LIMIT}
  /\ m_floodRateWindowStart > firstArrival[LastFloodId]
  /\ m_floodPacketCount < OPTOFLOOD_RATE_LIMIT_PER_SECOND
  /\ emitted = {}

\* C39: at every moment the Interests the consumer waits on and the
\* sendInterest events it has scheduled number at most one together.
C39_SingleSendCycle ==
  Cardinality(pendingInterests) + sendTimers <= 1

\* the names the consumer has retransmitted, and the names it has issued
\* with a new sequence number, each in the order of sending
IsRetransmission(sent) == sent.retransmission
IsNewName(sent) == ~sent.retransmission
ResentNames == SelectSeq(sentNames, IsRetransmission)
NewNames    == SelectSeq(sentNames, IsNewName)

\* C40: each failure (timeout or Nack) enqueues its name once; the names
\* are retransmitted in the order of their failures; a new sequence number
\* is issued only when the retransmission queue is empty, and the new
\* sequence numbers are 0, 1, 2, ... in this order; while the scheduled
\* sendInterest events keep firing, every failed name is retransmitted.
C40_RetransmissionFifo ==
  /\ [](/\ Len(ResentNames) + Len(m_retransmissionQueue) = Len(failedNames)
        /\ \A i \in DOMAIN ResentNames : ResentNames[i].name = failedNames[i]
        /\ \A i \in DOMAIN m_retransmissionQueue :
             m_retransmissionQueue[i] = failedNames[Len(ResentNames) + i]
        /\ \A i \in DOMAIN NewNames : NewNames[i].name = i - 1
        /\ m_sequenceNo = Len(NewNames))
  /\ [][(Len(sentNames') = Len(sentNames) + 1
         /\ ~sentNames'[Len(sentNames')].retransmission)
        => m_retransmissionQueue = <<>>]_vars
  /\ \A k \in 1..MaxSends :
       (/\ Len(failedNames) >= k
        /\ m_interestsSent + (k - Len(ResentNames)) <= MaxSends)
       ~> (Len(ResentNames) >= k)

\* C40 witness: two different names have failed in a row and the first of
\* them has been retransmitted while the second waits in the queue
C40_Witness ==
  /\ last.op = "express"
  /\ Len(failedNames) >= 2
  /\ failedNames[Len(failedNames) - 1] # failedNames[Len(failedNames)]
  /\ m_retransmissionQueue = <<failedNames[Len(failedNames)]>>
  /\ ResentNames # <<>>
  /\ ResentNames[Len(ResentNames)].name = failedNames[Len(failedNames) - 1]
  /\ last.interest.name = failedNames[Len(failedNames) - 1]

====
